---- MODULE Spec2Model ----
(***************************************************************************)
(* Retry / model-fallback / key-failover / cooldown logic of the edge      *)
(* functions of nirzaf/EdgeFunctions.                                      *)
(*                                                                         *)
(*   SpecLadder : one run of GeminiApiClient.callGenerativeApiWithPriority-*)
(*                Search (src/unnamed/part_000), one step per outbound call*)
(*   SpecGate   : the cooldown-gated Deno.serve handler of part_000, two   *)
(*                interleaved invocations, a wall clock and the shared     *)
(*                gemini_rate_limit_cooldown table                         *)
(*   SpecGateWarm: SpecGate started from a cooldown table that earlier     *)
(*                invocations left behind                                  *)
(*   SpecServe  : one invocation of that handler with the ladder run one   *)
(*                outbound call at a time; SpecServeLive adds the fairness *)
(*                of the runtime (an awaited operation that settles is     *)
(*                followed by the handler's next step)                     *)
(*   SpecDeletion: one invocation of that handler with the rows of         *)
(*                api_health_checks followed through the random deletion   *)
(*   SpecQts    : one run of callGenerativeApi of src/qts-query.ts         *)
(*   SpecQtsSite: SpecQts entered through the call site of the first       *)
(*                handler of src/qts-query.ts                              *)
(*   SpecDualKey: the two dual-key clients side by side, callGenerativeApi *)
(*                of src/qts-query.ts and of src/unnamed/part_001          *)
(*   SpecRetry  : one run of callGenerativeApiWithRetry of src/qts-query.ts*)
(*   SpecSingleRetry: one run of a single-retry variant: the handler of    *)
(*                part_002, the single-key callGenerativeApi of part_001,  *)
(*                or the dual-key callGenerativeApi of part_001            *)
(*   SpecHandlers: one invocation each of the first handler of             *)
(*                src/qts-query.ts, of the backup-key handler of part_001  *)
(*                and of the cooldown-gated handler of part_000            *)
(***************************************************************************)
EXTENDS Integers, Sequences, FiniteSets, TLC

VARIABLES
  lad,            \* SpecLadder: locals of callGenerativeApiWithPrioritySearch
  ladHist,        \* SpecLadder: history of the run (calls made, what was seen)
  now,            \* SpecGate: the wall clock, in ms
  cooldownTable,  \* SpecGate: rows of gemini_rate_limit_cooldown
  inv,            \* SpecGate: per invocation, the handler's position and locals
  gateHist,       \* SpecGate: history across invocations
  q,              \* SpecQts: locals of callGenerativeApi / attemptWithKeyAndRetries
  qHist,          \* SpecQts: history of the run
  d,              \* SpecDualKey: locals of part_001's callGenerativeApi / tryWithKey
  dHist,          \* SpecDualKey: history of that run
  w,              \* SpecRetry: locals of callGenerativeApiWithRetry
  wHist,          \* SpecRetry: the fetches made, each with the sleep after it
  sr,             \* SpecSingleRetry: locals of the single-retry variant that runs
  srHist,         \* SpecSingleRetry: which variant runs, and the fetches made
  hq,             \* SpecHandlers: the first handler of src/qts-query.ts
  hd              \* SpecHandlers: the backup-key handler of part_001

vars ==
  <<lad, ladHist, now, cooldownTable, inv, gateHist, q, qHist, d, dHist, w, wHist, sr, srHist,
    hq, hd>>

ladderVars == <<lad, ladHist>>
gateVars   == <<now, cooldownTable, inv, gateHist>>
qtsVars    == <<q, qHist>>
dualVars   == <<d, dHist>>
singleVars == <<sr, srHist>>
retryVars  == <<w, wHist, singleVars>>
handlerVars == <<hq, hd>>

(***************************************************************************)
(* Upstream results of one fetch.  An HTTP response has a status and a     *)
(* body; a fetch may also reject (network error) or be aborted by the      *)
(* timeout controller.                                                     *)
(***************************************************************************)
Http(s, b) == [kind |-> "http", status |-> s, body |-> b]
NetErr     == [kind |-> "neterr", status |-> 0, body |-> "none"]
Aborted    == [kind |-> "abort", status |-> 0, body |-> "none"]

\* response.ok
ResponseOk(r) == r.kind = "http" /\ r.status >= 200 /\ r.status <= 299

(***************************************************************************)
(* src/unnamed/part_000 : GeminiApiClient                                  *)
(***************************************************************************)
maxRetries    == 3
initialDelay  == 1000
backoffFactor == 2
timeoutMs     == 15000
primaryModel  == "gemini-2.5-flash-lite-preview-09-2025"
fallbackModel == "gemini-2.5-flash-lite"

RATE_LIMIT_429 == <<"RATE_LIMIT_429">>

\* Results one outbound call of the priority-search client can get.  A 2xx
\* body is a JSON object ("json"), the JSON value null ("null") or not JSON
\* ("garbage").
LadderResponses ==
  { Http(200, "json"), Http(200, "null"), Http(200, "garbage"), Http(429, "json"),
    Http(400, "json"), Http(500, "json"), NetErr, Aborted }

\* How long an outbound call takes until its response has been read, in ms:
\* a second, or longer than the timeout.
Durations == {1000, timeoutMs + 5000}

\* Mutant: the timer does not abort the call.
fetchWithTimeoutNoAbort(upstream, duration) == upstream

\* `setTimeout(() => controller.abort(), timeoutMs)` around the fetch and the
\* reading of its body: a call that is not over after timeoutMs is aborted,
\* whatever the upstream would have answered.
fetchWithTimeout(upstream, duration) ==
  IF duration > timeoutMs THEN Aborted ELSE upstream

\* What `await this.attemptXSearch(...)` gives: the parsed body (truthy for an
\* object, falsy for null), or a thrown error with its message.  `name` is
\* "Quadrate search" or "General search".
attemptSearch(name, r) ==
  LET threw(msg) == [threw |-> TRUE, message |-> msg, truthy |-> FALSE] IN
  CASE r.kind = "neterr"  -> threw(<<"fetch failed">>)
    [] r.kind = "abort"   -> threw(<<"The signal has been aborted">>)
    [] r.status = 429     -> threw(RATE_LIMIT_429)
    [] ~ResponseOk(r)     -> threw(<<name, "failed with status", r.status>>)
    [] r.body = "garbage" -> threw(<<"Unexpected token in JSON">>)
    [] OTHER -> [threw |-> FALSE, message |-> <<>>, truthy |-> r.body = "json"]

attemptQuadrateSearch(r) == attemptSearch("Quadrate search", r)
attemptGeneralSearch(r)  == attemptSearch("General search", r)

apiKeys(backupApiKey) ==
  IF backupApiKey THEN <<"primary", "backup">> ELSE <<"primary">>

models == <<primaryModel, fallbackModel>>

NoError == <<"null">>

\* `const jitter = Math.random() * 500`: Math.random() is in [0, 1), so the
\* jitter is at least 0 and below jitterBound.
jitterBound == 500

\* `await sleep(delay + jitter)`: the durations the sleep can have, at least
\* delay and below delay + jitterBound.  NoSleep: no sleep is taken.
NoSleep == [atLeast |-> 0, below |-> 0]
sleep(delay) == [atLeast |-> delay, below |-> delay + jitterBound]

\* The locals on entry, before the first outbound call.  slept is the backoff
\* sleep taken since the latest outbound call.
LadderStart(backupApiKey) ==
  [ phase        |-> "quadrate",
    keys         |-> apiKeys(backupApiKey),
    ki           |-> 1,
    mi           |-> 1,
    attempt      |-> 1,
    delay        |-> initialDelay,
    slept        |-> NoSleep,
    quadrateData |-> FALSE,
    generalData  |-> FALSE,
    lastError    |-> NoError,
    modelUsed    |-> "",
    outcome      |-> "running",
    thrown       |-> NoError,
    aggregation  |-> "none",
    quadrateSearchCompleted |-> FALSE,
    generalSearchCompleted  |-> FALSE ]

\* Mutant: a new phase goes on with the key and the model of the phase before.
StartPhaseKeepPair(l, ph) ==
  [l EXCEPT !.phase = ph, !.attempt = 1, !.delay = initialDelay, !.slept = NoSleep]

\* A new triple loop `for key / for model / for attempt` starts.
StartPhase(l, ph) ==
  [l EXCEPT !.phase = ph, !.ki = 1, !.mi = 1, !.attempt = 1, !.delay = initialDelay,
            !.slept = NoSleep]

\* `throw error` out of callGenerativeApiWithPrioritySearch.
Throw(l, msg) == [l EXCEPT !.outcome = "threw", !.thrown = msg, !.slept = NoSleep]

\* `return { aiData, modelUsed }`: the aggregate of phase 3 ("prioritized") or
\* the result of the fallback search ("fallback").
Return(l, agg) ==
  [l EXCEPT !.outcome = "returned", !.aggregation = agg, !.slept = NoSleep,
            !.quadrateSearchCompleted = (agg = "prioritized"),
            !.generalSearchCompleted = IF agg = "prioritized" THEN l.generalData ELSE TRUE]

\* Mutant: the fallback search also runs after an exhausted general search.
PhaseExhaustedFallbackTwice(l) ==
  CASE l.phase = "quadrate" -> StartPhase(l, "fallback")
    [] l.phase = "general"  -> StartPhase(l, "fallback")
    [] OTHER -> Throw(l, <<"All search strategies failed. Last error:", l.lastError>>)

\* The three loops of the current phase are over without a success.
PhaseExhausted(l) ==
  CASE l.phase = "quadrate" -> StartPhase(l, "fallback")
    [] l.phase = "general"  -> Return(l, "prioritized")
    [] OTHER -> Throw(l, <<"All search strategies failed. Last error:", l.lastError>>)

\* Mutant: the loops are nested the other way round, keys inside models.
NextPairKeyFirst(l) ==
  IF l.ki < Len(l.keys)
    THEN [l EXCEPT !.ki = @ + 1, !.attempt = 1, !.delay = initialDelay,
                   !.slept = NoSleep]
  ELSE IF l.mi < Len(models)
    THEN [l EXCEPT !.mi = @ + 1, !.ki = 1, !.attempt = 1, !.delay = initialDelay,
                   !.slept = NoSleep]
  ELSE PhaseExhausted(l)

\* Mutant: the delay is not set back to initialDelay for a new pair.
NextPairKeepDelay(l) ==
  IF l.mi < Len(models)
    THEN [l EXCEPT !.mi = @ + 1, !.attempt = 1, !.slept = NoSleep]
  ELSE IF l.ki < Len(l.keys)
    THEN [l EXCEPT !.ki = @ + 1, !.mi = 1, !.attempt = 1, !.slept = NoSleep]
  ELSE PhaseExhausted(l)

\* The attempt loop of the current pair is over without data: the next model,
\* the next key, or out of the loops.
NextPair(l) ==
  IF l.mi < Len(models)
    THEN [l EXCEPT !.mi = @ + 1, !.attempt = 1, !.delay = initialDelay,
                   !.slept = NoSleep]
  ELSE IF l.ki < Len(l.keys)
    THEN [l EXCEPT !.ki = @ + 1, !.mi = 1, !.attempt = 1, !.delay = initialDelay,
                   !.slept = NoSleep]
  ELSE PhaseExhausted(l)

\* Mutant: the retry loop runs one attempt too many (attempt <= maxRetries + 1).
NextAttemptOffByOne(l) ==
  IF l.attempt <= maxRetries
    THEN [l EXCEPT !.attempt = @ + 1, !.slept = sleep(l.delay),
                   !.delay = @ * backoffFactor]
    ELSE NextPair(l)

\* After a failed attempt that is not propagated: sleep and retry the pair, or
\* move on.
NextAttempt(l) ==
  IF l.attempt < maxRetries
    THEN [l EXCEPT !.attempt = @ + 1, !.slept = sleep(l.delay),
                   !.delay = @ * backoffFactor]
    ELSE NextPair(l)

\* catch block of phase 1.
catchQuadrate(l, msg) ==
  IF msg = RATE_LIMIT_429
    THEN Throw([l EXCEPT !.lastError = msg], msg)
    ELSE NextAttempt([l EXCEPT !.lastError = msg])

\* Mutant: the general-search catch retries a 429 like any other failure.
catchGeneralNoPropagate(l, msg) == NextAttempt(l)

\* catch block of phase 2 (lastError is not assigned here).
catchGeneral(l, msg) ==
  IF msg = RATE_LIMIT_429 THEN Throw(l, msg) ELSE NextAttempt(l)

\* Mutant: the fallback catch does not assign lastError.
catchFallbackNoLastError(l, msg) ==
  IF msg = RATE_LIMIT_429 THEN Throw(l, msg) ELSE NextAttempt(l)

\* catch block of the fallback search.
catchFallback(l, msg) ==
  IF msg = RATE_LIMIT_429
    THEN Throw([l EXCEPT !.lastError = msg], msg)
    ELSE NextAttempt([l EXCEPT !.lastError = msg])

\* One outbound call of the ladder with upstream result r, and everything the
\* function does until its next outbound call, its return or its throw.
callGenerativeApiWithPrioritySearch(l, r) ==
  CASE l.phase = "quadrate" ->
         LET res == attemptQuadrateSearch(r) IN
         IF res.threw THEN catchQuadrate(l, res.message)
         ELSE IF res.truthy
           THEN StartPhase([l EXCEPT !.quadrateData = TRUE, !.modelUsed = models[l.mi]],
                           "general")
           ELSE NextPair([l EXCEPT !.modelUsed = models[l.mi]])
    [] l.phase = "general" ->
         LET res == attemptGeneralSearch(r) IN
         IF res.threw THEN catchGeneral(l, res.message)
         ELSE IF res.truthy
           THEN Return([l EXCEPT !.generalData = TRUE], "prioritized")
           ELSE NextPair(l)
    [] OTHER ->
         LET res == attemptGeneralSearch(r) IN
         IF res.threw THEN catchFallback(l, res.message)
         ELSE Return([l EXCEPT !.generalData = res.truthy, !.modelUsed = models[l.mi]],
                     "fallback")

(***************************************************************************)
(* SpecLadder: one call of callGenerativeApiWithPrioritySearch, with or    *)
(* without a backup key.                                                   *)
(***************************************************************************)
Phases == {"quadrate", "general", "fallback"}
Pairs  == {"primary", "backup"} \X {primaryModel, fallbackModel}

\* calls: outbound calls per phase and (key, model) pair; quadPrimary500: every
\* quadrate-search call made with (primary key, primary model) got HTTP 500;
\* quadrateOk: the pair whose quadrate-search call returned the data;
\* sawFalsy: a call of the quadrate or the general search got a 2xx response
\* with a falsy body; lastErrorStale: the most recent failed call threw an
\* error whose message is not the one lastError holds.
LadHistStart ==
  [ calls        |-> [ph \in Phases, p \in Pairs |-> 0],
    sawFalsy     |-> FALSE,
    lastErrorStale |-> FALSE,
    quadPrimary500 |-> TRUE,
    quadrateOk   |-> <<>>,
    saw429       |-> FALSE,
    after429     |-> FALSE,
    saw4xx       |-> FALSE,
    after4xx     |-> FALSE ]

\* The history after one more outbound call by ladder state l with result r.
LadRecord(hh, l, r) ==
  LET p == <<l.keys[l.ki], models[l.mi]>>
      is4xx == r.kind = "http" /\ r.status >= 400 /\ r.status <= 499 /\ r.status # 429
      res == attemptSearch("", r)
  IN [ calls    |-> [hh.calls EXCEPT ![l.phase, p] = @ + 1],
       sawFalsy |-> hh.sawFalsy \/ (~res.threw /\ ~res.truthy /\ l.phase # "fallback"),
       lastErrorStale |->
         LET got == IF l.phase = "quadrate" THEN attemptQuadrateSearch(r)
                    ELSE attemptGeneralSearch(r)
         IN IF got.threw
              THEN callGenerativeApiWithPrioritySearch(l, r).lastError # got.message
              ELSE hh.lastErrorStale,
       quadPrimary500 |->
         /\ hh.quadPrimary500
         /\ (l.phase = "quadrate" /\ p = <<"primary", primaryModel>>)
              => (r.kind = "http" /\ r.status = 500),
       quadrateOk |->
         IF l.phase = "quadrate" /\ attemptQuadrateSearch(r).truthy THEN p
         ELSE hh.quadrateOk,
       saw429   |-> hh.saw429 \/ (r.kind = "http" /\ r.status = 429),
       after429 |-> hh.after429 \/ hh.saw429,
       saw4xx   |-> hh.saw4xx \/ is4xx,
       after4xx |-> hh.after4xx \/ hh.saw4xx ]

GateIdle ==
  /\ now = 0
  /\ cooldownTable = {}
  /\ inv = <<>>
  /\ gateHist = <<>>

QtsIdle ==
  /\ q = <<>>
  /\ qHist = <<>>

DualIdle ==
  /\ d = <<>>
  /\ dHist = <<>>

SingleIdle ==
  /\ sr = <<>>
  /\ srHist = <<>>

RetryIdle ==
  /\ w = <<>>
  /\ wHist = <<>>
  /\ SingleIdle

HandlersIdle ==
  /\ hq = <<>>
  /\ hd = <<>>

InitLadder ==
  /\ \E backupApiKey \in BOOLEAN : lad = LadderStart(backupApiKey)
  /\ ladHist = LadHistStart
  /\ GateIdle
  /\ QtsIdle
  /\ DualIdle
  /\ RetryIdle
  /\ HandlersIdle

LadderCall ==
  /\ lad.outcome = "running"
  /\ \E r \in LadderResponses :
       /\ lad' = callGenerativeApiWithPrioritySearch(lad, r)
       /\ ladHist' = LadRecord(ladHist, lad, r)
  /\ UNCHANGED <<gateVars, qtsVars, dualVars, retryVars, handlerVars>>

NextLadder == LadderCall

SpecLadder == InitLadder /\ [][NextLadder]_vars

\* Outbound calls made so far with pair p, over all phases.
LadderCalls(p) ==
  ladHist.calls["quadrate", p] + ladHist.calls["general", p] + ladHist.calls["fallback", p]

\* C6: once an outbound call of the ladder has returned 429, whichever phase
\* it was made in, no further outbound call is made and the ladder has ended by
\* throwing RATE_LIMIT_429.
C6_NoCallAfter429 ==
  /\ ~ladHist.after429
  /\ ladHist.saw429 => (lad.outcome = "threw" /\ lad.thrown = RATE_LIMIT_429)

\* C6 witness: a 429 met in the general search, after the quadrate search
\* succeeded, has ended the ladder.
C6_Witness ==
  /\ ladHist.saw429
  /\ lad.phase = "general"
  /\ lad.quadrateData
  /\ lad.outcome = "threw"

\* C9, as claimed: a 4xx response other than 429 is terminal: after it no
\* further outbound call is made and the ladder has ended with a failure.
C9_ClientErrorTerminal ==
  ladHist.saw4xx => (~ladHist.after4xx /\ lad.outcome = "threw")

\* C10, as claimed: with no 429 observed, no (key, model) pair gets more than
\* maxRetries outbound calls over the whole invocation, all phases together.
C10_AtMostMaxRetriesPerPair ==
  ~ladHist.saw429 => \A p \in Pairs : LadderCalls(p) <= maxRetries

\* C10, amended: a (key, model) pair gets at most maxRetries outbound calls in
\* each phase; the general search and the fallback search never both run, so
\* over the whole invocation a pair gets at most 2 * maxRetries calls.
C10_AtMostMaxRetriesPerPairAndPhase ==
  /\ \A ph \in Phases, p \in Pairs : ladHist.calls[ph, p] <= maxRetries
  /\ \A p \in Pairs, o \in Pairs :
       ladHist.calls["general", p] = 0 \/ ladHist.calls["fallback", o] = 0
  /\ \A p \in Pairs : LadderCalls(p) <= 2 * maxRetries

\* C10 witness: without any 429, a pair has been called maxRetries times in
\* the quadrate search and maxRetries times again in a later phase.
C10_Witness ==
  /\ ~ladHist.saw429
  /\ \E p \in Pairs : LadderCalls(p) = 2 * maxRetries

RECURSIVE Pow(_, _)
Pow(b, e) == IF e = 0 THEN 1 ELSE b * Pow(b, e - 1)

\* C14: the k-th backoff sleep inside one (key, model) pair, k = 1 ..
\* maxRetries - 1, lasts at least initialDelay * backoffFactor^(k-1) and at
\* most 500 ms more; every new pair starts with the delay at initialDelay;
\* and no sleep follows the last attempt of a pair, a success or a 429.
C14_BackoffSleeps ==
  LET k == lad.attempt - 1
      base == initialDelay * Pow(backoffFactor, k - 1)
  IN /\ lad.attempt \in 1 .. maxRetries
     /\ lad.outcome # "running" => lad.slept = NoSleep
     /\ (lad.outcome = "running" /\ lad.attempt = 1) =>
          (lad.slept = NoSleep /\ lad.delay = initialDelay)
     /\ (lad.outcome = "running" /\ lad.attempt > 1) =>
          /\ lad.slept.atLeast = base
          /\ lad.slept.below <= base + 500
          /\ lad.slept.below > lad.slept.atLeast
          /\ lad.delay = base * backoffFactor

\* C14 witness: the second sleep of a pair (2000 ms and up) has been taken
\* with the backup key and the fallback model in the general search, every
\* earlier pair having started again from initialDelay.
C14_Witness ==
  /\ lad.outcome = "running"
  /\ lad.phase = "general"
  /\ lad.keys[lad.ki] = "backup"
  /\ lad.mi = 2
  /\ lad.attempt = maxRetries
  /\ lad.slept.atLeast = initialDelay * backoffFactor

\* The scenario of C12: in the quadrate search the primary key got HTTP 500 on
\* all maxRetries attempts with the primary model, and its first attempt with
\* the fallback model returned a JSON object.
PrimaryModelExhaustedThenFallbackOk ==
  /\ ladHist.quadPrimary500
  /\ ladHist.calls["quadrate", <<"primary", primaryModel>>] = maxRetries
  /\ ladHist.calls["quadrate", <<"primary", fallbackModel>>] = 1
  /\ ladHist.quadrateOk = <<"primary", fallbackModel>>

BackupQuadrateCalls ==
  ladHist.calls["quadrate", <<"backup", primaryModel>>]
    + ladHist.calls["quadrate", <<"backup", fallbackModel>>]

\* C12, as claimed: in that scenario the invocation does not fail, a returned
\* result has modelUsed = the fallback model, and the quadrate search made no
\* call with the backup key.
C12_EscalationGivesSuccess ==
  PrimaryModelExhaustedThenFallbackOk =>
    /\ lad.outcome # "threw"
    /\ lad.outcome = "returned" => lad.modelUsed = fallbackModel
    /\ BackupQuadrateCalls = 0

\* C12, amended: in that scenario the quadrate search has succeeded with
\* modelUsed = the fallback model and without any call with the backup key;
\* the invocation goes on to the general search and returns the prioritized
\* aggregate with that modelUsed, whatever the general search yields, except
\* that a 429 met in the general search makes it throw RATE_LIMIT_429.
C12_EscalationGivesSuccessUnless429 ==
  PrimaryModelExhaustedThenFallbackOk =>
    /\ BackupQuadrateCalls = 0
    /\ lad.modelUsed = fallbackModel
    /\ lad.phase = "general"
    /\ lad.outcome = "returned" =>
         lad.aggregation = "prioritized" /\ lad.quadrateSearchCompleted
    /\ lad.outcome = "threw" => (lad.thrown = RATE_LIMIT_429 /\ ladHist.saw429)

\* C12 witness: the scenario happened with a backup key configured, the
\* general search succeeded too, and the returned modelUsed is the fallback
\* model.
C12_Witness ==
  /\ PrimaryModelExhaustedThenFallbackOk
  /\ Len(lad.keys) = 2
  /\ lad.outcome = "returned"
  /\ lad.generalData
  /\ lad.modelUsed = fallbackModel

(***************************************************************************)
(* src/qts-query.ts : callGenerativeApi (first handler)                    *)
(***************************************************************************)
defaultMaxRetries == 5
qtsPrimaryModel   == "gemini-2.5-flash"
qtsFallbackModel  == "gemini-2.5-flash-lite"

\* Results one fetch of callGenerativeApi can get.  The body of an error
\* response is JSON with error.message ("json"), JSON without an error object
\* ("noerror"), or not JSON ("garbage").
QtsResponses ==
  { Http(200, "json"), Http(200, "null"), Http(200, "garbage"), Http(429, "json"),
    Http(500, "json"), Http(400, "json"), Http(400, "noerror"), Http(400, "garbage"),
    NetErr }

NonRetryable == "Non-retryable Google AI API error"

\* error.message.startsWith('Non-retryable')
StartsNonRetryable(msg) == Len(msg) > 0 /\ msg[1] = NonRetryable

\* Mutant: the backup key starts with the model the primary key ended on.
StartKeyKeepModel(s, keyLabel) ==
  [s EXCEPT !.keyLabel = keyLabel, !.attempt = 0, !.lastError = NoError]

\* Locals when attemptWithKeyAndRetries(key, keyLabel) is entered.
StartKey(s, keyLabel) ==
  [s EXCEPT !.keyLabel = keyLabel, !.attempt = 0,
            !.currentModel = qtsPrimaryModel, !.lastError = NoError]

\* JavaScript values as far as the call of callGenerativeApi needs them: a
\* string, undefined, null, or an object with numeric properties.
NoProps       == [n \in {} |-> 0]
JsString(x)   == [type |-> "string", value |-> x, props |-> NoProps]
JsUndefined   == [type |-> "undefined", value |-> "", props |-> NoProps]
JsNull        == [type |-> "null", value |-> "", props |-> NoProps]
JsObject(ps)  == [type |-> "object", value |-> "", props |-> ps]

\* if (v)
Truthy(v) == v.type = "object" \/ (v.type = "string" /\ v.value # "")

\* The i-th argument of a call; a missing argument is undefined.
Arg(args, i) == IF i <= Len(args) THEN args[i] ELSE JsUndefined

\* A parameter default, `p = dflt`, and a destructuring default,
\* `{n = dflt} = o`.
ParamDefault(v, dflt) == IF v.type = "undefined" THEN dflt ELSE v
PropDefault(o, n, dflt) == IF n \in DOMAIN o.props THEN o.props[n] ELSE dflt

defaultInitialDelay == 1000

\* String(v), as a template literal `${v}` converts a value.
JsToString(v) ==
  CASE v.type = "string"    -> v.value
    [] v.type = "undefined" -> "undefined"
    [] v.type = "null"      -> "null"
    [] OTHER                -> "[object Object]"

\* callGenerativeApi is entered: the primary key is tried first.  keys: the
\* value each key label stands for; prompt: the value of the parameter prompt.
QtsStart(backupApiKey, maxR) ==
  [ prompt       |-> JsString("prompt"),
    backupApiKey |-> backupApiKey,
    maxRetries   |-> maxR,
    initialDelay |-> defaultInitialDelay,
    keys         |-> [primary |-> JsString("apiKey"),
                      backup  |-> IF backupApiKey THEN JsString("backupApiKey") ELSE JsNull],
    keyLabel     |-> "primary",
    attempt      |-> 0,
    currentModel |-> qtsPrimaryModel,
    lastError    |-> NoError,
    primaryError |-> NoError,
    outcome      |-> "running",
    thrown       |-> NoError,
    aiData       |-> "none",
    modelUsed    |-> "",
    keyUsed      |-> "" ]

\* function callGenerativeApi(prompt, apiKey, backupApiKey = null, config = {})
\* with `const { maxRetries = 5, initialDelay = 1000, ... } = config`: the
\* state in which a call with the arguments args enters the main flow.
callGenerativeApiBind(args) ==
  LET prompt       == Arg(args, 1)
      apiKey       == Arg(args, 2)
      backupApiKey == ParamDefault(Arg(args, 3), JsNull)
      config       == ParamDefault(Arg(args, 4), JsObject(NoProps))
  IN [QtsStart(Truthy(backupApiKey), PropDefault(config, "maxRetries", defaultMaxRetries))
        EXCEPT !.prompt = prompt,
               !.initialDelay = PropDefault(config, "initialDelay", defaultInitialDelay),
               !.keys = [primary |-> apiKey, backup |-> backupApiKey]]

\* The configuration object and the arguments of the call in the first
\* handler; geminiBackupApiKey is Deno.env.get('GEMINI_API_BACKUP_KEY').
HandlerConfig == JsObject([n \in {"maxRetries", "initialDelay"} |->
                            IF n = "maxRetries" THEN 4 ELSE 1500])
HandlerCallArgs(geminiBackupApiKey) ==
  <<JsString("GEMINI_API_KEY"), geminiBackupApiKey, HandlerConfig>>

\* The prompts the first handler chooses from (two stand for the list), and
\* the secrets it reads.
PROMPTS == <<"prompt 1", "prompt 2">>
GeminiSecrets == {"GEMINI_API_KEY", "GEMINI_API_BACKUP_KEY"}

\* requestBody.contents[0].parts[0].text of every fetch of the call s.
requestText(s) == s.prompt

\* The key in `...:generateContent?key=${key}` of the fetch s is about to make.
apiUrlKey(s) == JsToString(s.keys[s.keyLabel])

\* The row the first handler inserts into gemini_responses after
\* callGenerativeApi returned s, prompt being the prompt it selected; no row
\* when the response carries no text.
geminiResponsesRow(s, prompt) ==
  IF s.outcome = "returned" /\ s.aiData = "json"
    THEN <<[prompt |-> prompt, model_used |-> s.modelUsed]>>
    ELSE <<>>

\* Math.random() * 1000 as far as Math.round lets it show.
Jitters == {0, 500, 1000}

\* The wait before the fetch that s is about to make: none before attempt 0,
\* else Math.round(initialDelay * 2^(attempt - 1) + jitter).
waitTime(s, jitter) ==
  IF s.outcome = "running" /\ s.attempt > 0
    THEN s.initialDelay * 2 ^ (s.attempt - 1) + jitter
    ELSE 0

\* Mutant: a failed primary key is never followed by the backup key.
onKeyFailureNoBackup(s, err) ==
  [s EXCEPT !.outcome = "threw", !.thrown = err, !.primaryError = err]

\* The catch blocks of the main execution flow: err was thrown by
\* attemptWithKeyAndRetries for the current key.
onKeyFailure(s, err) ==
  IF s.keyLabel = "primary"
    THEN IF s.backupApiKey
           THEN StartKey([s EXCEPT !.primaryError = err], "backup")
           ELSE [s EXCEPT !.outcome = "threw", !.thrown = err, !.primaryError = err]
    ELSE [s EXCEPT !.outcome = "threw",
                   !.thrown = <<"Both API keys failed", s.primaryError, err>>]

\* Mutant: every iteration starts again with primaryModel.
nextIterationResetModel(s) ==
  IF s.attempt + 1 < s.maxRetries
    THEN [s EXCEPT !.attempt = @ + 1, !.currentModel = qtsPrimaryModel]
    ELSE onKeyFailure(s, <<"Failed to call API with", s.keyLabel, s.maxRetries, s.lastError>>)

\* `continue`, or falling out of the catch block: the next loop iteration, or
\* the throw after the loop.
nextIteration(s) ==
  IF s.attempt + 1 < s.maxRetries
    THEN [s EXCEPT !.attempt = @ + 1]
    ELSE onKeyFailure(s, <<"Failed to call API with", s.keyLabel, s.maxRetries, s.lastError>>)

\* catch (error) of the retry loop.
catchAttempt(s, msg) ==
  LET t == [s EXCEPT !.lastError = msg] IN
  IF StartsNonRetryable(msg) THEN onKeyFailure(t, msg) ELSE nextIteration(t)

\* One fetch of attemptWithKeyAndRetries with upstream result r, and everything
\* callGenerativeApi does until its next fetch, its return or its throw.
attemptWithKeyAndRetries(s, r) ==
  CASE r.kind # "http" -> catchAttempt(s, <<"fetch failed">>)
    [] ResponseOk(r) ->
         IF r.body = "garbage"
           THEN catchAttempt(s, <<"Unexpected token in JSON">>)
           ELSE [s EXCEPT !.outcome = "returned", !.aiData = r.body,
                          !.modelUsed = s.currentModel, !.keyUsed = s.keyLabel]
    [] r.status = 429 ->
         nextIteration([s EXCEPT !.currentModel = qtsFallbackModel,
                                 !.lastError = <<"API rate limit exceeded", r.status>>])
    [] r.status >= 500 ->
         nextIteration([s EXCEPT !.lastError = <<"API server error", r.status>>])
    [] OTHER ->
         CASE r.body = "json" ->
                catchAttempt(s, <<NonRetryable, r.status, "message">>)
           [] r.body = "garbage" ->
                catchAttempt(s, <<NonRetryable, r.status, "Failed to parse error response.">>)
           [] OTHER ->
                catchAttempt(s, <<"Cannot read properties of undefined (reading 'message')">>)

callGenerativeApi(s, r) == attemptWithKeyAndRetries(s, r)

(***************************************************************************)
(* SpecQts: one call of callGenerativeApi, with or without a backup key.   *)
(***************************************************************************)
QtsLabels == {"primary", "backup"}
QtsModels == {qtsPrimaryModel, qtsFallbackModel}

\* calls: fetches per (key, model); first429[k]: which fetch of key k was the
\* first to get 429 (0: none yet); ended[k]: how the attempts of key k ended;
\* lastCall: the key label and model of the latest fetch; lastOk: whether it
\* returned 2xx; sawMalformed: a 2xx response came with a body that is not
\* JSON or that carries no text; afterMalformed: a fetch was made after it;
\* args: the arguments callGenerativeApi was called with, where the call site
\* is modelled; firstWait: the wait before the fetch about to be made when it
\* is the second attempt with a key, the first backoff wait of that key;
\* prompt: the prompt the handler selected, where the call site is modelled;
\* sentText, sentKey: the request text and the URL key of the latest fetch.
QtsHistStart ==
  [ calls         |-> [k \in QtsLabels, m \in QtsModels |-> 0],
    first429      |-> [k \in QtsLabels |-> 0],
    ended         |-> [k \in QtsLabels |-> "no"],
    lastCall      |-> <<>>,
    primaryAll429 |-> TRUE,
    saw4xx        |-> FALSE,
    after4xx      |-> FALSE,
    sawMalformed  |-> FALSE,
    afterMalformed |-> FALSE,
    args          |-> <<>>,
    prompt        |-> "",
    sentText      |-> JsUndefined,
    sentKey       |-> "",
    firstWait     |-> 0,
    lastOk        |-> FALSE ]

QtsCalls(hh, k) == hh.calls[k, qtsPrimaryModel] + hh.calls[k, qtsFallbackModel]

QtsRecord(hh, s, r) ==
  LET is429 == r.kind = "http" /\ r.status = 429
      is4xx == r.kind = "http" /\ r.status >= 400 /\ r.status <= 499 /\ r.status # 429
      k  == s.keyLabel
      s2 == callGenerativeApi(s, r)
  IN [ calls         |-> [hh.calls EXCEPT ![k, s.currentModel] = @ + 1],
       first429      |-> IF is429 /\ hh.first429[k] = 0
                           THEN [hh.first429 EXCEPT ![k] = QtsCalls(hh, k) + 1]
                           ELSE hh.first429,
       ended         |-> IF s2.outcome = "running" /\ s2.keyLabel = k THEN hh.ended
                         ELSE [hh.ended EXCEPT ![k] =
                                 IF s2.outcome = "returned" THEN "success"
                                 ELSE IF is4xx THEN "clientError" ELSE "failure"],
       lastCall      |-> <<k, s.currentModel>>,
       primaryAll429 |-> hh.primaryAll429 /\ (s.keyLabel = "primary" => is429),
       saw4xx        |-> hh.saw4xx \/ is4xx,
       after4xx      |-> hh.after4xx \/ hh.saw4xx,
       sawMalformed  |-> hh.sawMalformed \/ (ResponseOk(r) /\ r.body \in {"garbage", "null"}),
       afterMalformed |-> hh.afterMalformed \/ hh.sawMalformed,
       args          |-> hh.args,
       prompt        |-> hh.prompt,
       sentText      |-> requestText(s),
       sentKey       |-> apiUrlKey(s),
       firstWait     |-> hh.firstWait,
       lastOk        |-> ResponseOk(r) ]

LadderIdle ==
  /\ lad = <<>>
  /\ ladHist = <<>>

InitQts ==
  /\ \E backupApiKey \in BOOLEAN : q = QtsStart(backupApiKey, defaultMaxRetries)
  /\ qHist = QtsHistStart
  /\ LadderIdle
  /\ GateIdle
  /\ DualIdle
  /\ RetryIdle
  /\ HandlersIdle

QtsCall ==
  /\ q.outcome = "running"
  /\ \E r \in QtsResponses :
       LET s2 == callGenerativeApi(q, r) IN
       \E jitter \in IF s2.attempt = 1 THEN Jitters ELSE {0} :
         /\ q' = s2
         /\ qHist' = [QtsRecord(qHist, q, r) EXCEPT
                        !.firstWait = IF s2.attempt = 1 THEN waitTime(s2, jitter) ELSE 0]
  /\ UNCHANGED <<ladderVars, gateVars, dualVars, retryVars, handlerVars>>

NextQts == QtsCall

SpecQts == InitQts /\ [][NextQts]_vars

(***************************************************************************)
(* SpecQtsSite: the call of callGenerativeApi that the first handler of    *)
(* src/qts-query.ts makes, with GEMINI_API_BACKUP_KEY set or not.          *)
(***************************************************************************)
InitQtsSite ==
  /\ \E geminiBackupApiKey \in {JsUndefined, JsString("GEMINI_API_BACKUP_KEY")},
        i \in 1 .. Len(PROMPTS) :
       /\ q = callGenerativeApiBind(HandlerCallArgs(geminiBackupApiKey))
       /\ qHist = [QtsHistStart EXCEPT !.args = HandlerCallArgs(geminiBackupApiKey),
                                       !.prompt = PROMPTS[i]]
  /\ LadderIdle
  /\ GateIdle
  /\ DualIdle
  /\ RetryIdle
  /\ HandlersIdle

SpecQtsSite == InitQtsSite /\ [][NextQts]_vars

\* Every call made so far with the primary key returned 429 (at least one).
PrimaryAll429 == qHist.primaryAll429 /\ QtsCalls(qHist, "primary") >= 1

RateLimitFailure ==
  <<"Failed to call API with", "primary", q.maxRetries, <<"API rate limit exceeded", 429>>>>

\* C7, as claimed: when the primary key gets 429 on every call, the call ends
\* as rate-limited and no outbound call is made with the backup key.
C7_NoBackupAfterPrimary429 ==
  PrimaryAll429 =>
    /\ q.keyLabel = "primary"
    /\ QtsCalls(qHist, "backup") = 0
    /\ q.outcome \in {"running", "threw"}

\* C7, amended: when the primary key gets 429 on every call, it is tried
\* maxRetries times, the first time with primaryModel and then with
\* fallbackModel, and fails with the rate-limit error; a configured backup key
\* is tried next, and only without a backup key does the call end there, as
\* rate-limited and with no backup call.
C7_Primary429ThenBackupIfConfigured ==
  PrimaryAll429 =>
    /\ qHist.calls["primary", qtsPrimaryModel] = 1
    /\ QtsCalls(qHist, "primary") <= q.maxRetries
    /\ QtsCalls(qHist, "primary") < q.maxRetries =>
         /\ q.keyLabel = "primary" /\ q.outcome = "running"
         /\ q.currentModel = qtsFallbackModel
         /\ QtsCalls(qHist, "backup") = 0
    /\ QtsCalls(qHist, "primary") = q.maxRetries =>
         IF q.backupApiKey
           THEN q.keyLabel = "backup" /\ q.primaryError = RateLimitFailure
           ELSE /\ q.outcome = "threw" /\ q.thrown = RateLimitFailure
                /\ QtsCalls(qHist, "backup") = 0

\* C7 witness: the primary key got 429 on all its maxRetries calls and the
\* backup key has been called.
C7_Witness ==
  /\ PrimaryAll429
  /\ QtsCalls(qHist, "primary") = q.maxRetries
  /\ QtsCalls(qHist, "backup") >= 1

\* C11, as claimed: when a key is abandoned (the backup key is tried next, or
\* the call fails), both primaryModel and fallbackModel have been attempted
\* with that key, unless its attempts ended by a success or a client error.
C11_NoModelSkipped ==
  \A k \in QtsLabels :
    qHist.ended[k] = "failure" =>
      /\ qHist.calls[k, qtsPrimaryModel] >= 1
      /\ qHist.calls[k, qtsFallbackModel] >= 1

\* C11, amended: with every key the fetches use primaryModel up to and
\* including the first one that gets 429 and fallbackModel after it; a key
\* that is tried at all starts with primaryModel, and fallbackModel is
\* attempted with a key only when a fetch with that key, other than its last,
\* got 429.  A key that never gets 429 is abandoned with fallbackModel skipped.
C11_FallbackModelOnlyAfter429 ==
  \A k \in QtsLabels :
    LET total == QtsCalls(qHist, k) IN
    /\ qHist.calls[k, qtsPrimaryModel] =
         (IF qHist.first429[k] = 0 THEN total ELSE qHist.first429[k])
    /\ qHist.calls[k, qtsFallbackModel] =
         (IF qHist.first429[k] = 0 THEN 0 ELSE total - qHist.first429[k])
    /\ total <= q.maxRetries
    /\ qHist.ended[k] = "failure" /\ qHist.first429[k] = 0 =>
         qHist.calls[k, qtsPrimaryModel] = q.maxRetries

\* C11 witness: the primary key was retried to exhaustion without a 429 and
\* without a client error, fallbackModel was never attempted with it, and the
\* backup key is being tried, its first 429 having moved it to fallbackModel.
C11_Witness ==
  /\ qHist.ended["primary"] = "failure"
  /\ qHist.calls["primary", qtsPrimaryModel] = q.maxRetries
  /\ qHist.calls["primary", qtsFallbackModel] = 0
  /\ qHist.first429["backup"] = 1
  /\ qHist.calls["backup", qtsFallbackModel] >= 1

\* C8, as claimed: once an outbound call has returned a 4xx status other than
\* 429, no further outbound call is made in that callGenerativeApi invocation.
C8_NoCallAfterClientError == ~qHist.after4xx

(***************************************************************************)
(* src/unnamed/part_001 : callGenerativeApi with backup key (tryWithKey)   *)
(***************************************************************************)
dualPrimaryModel == "gemini-2.5-flash"
dualLiteModel    == "gemini-2.5-flash-lite"
rateLimitWaitMs  == 3000

\* Results one fetch of tryWithKey can get.  The body of an error response is
\* JSON with error.message ("json"), the same with a message that mentions
\* "overloaded" ("overloaded"), JSON without an error object ("noerror"), or
\* not JSON ("garbage").
DualResponses ==
  { Http(200, "json"), Http(200, "null"), Http(200, "garbage"), Http(429, "json"),
    Http(503, "json"), Http(503, "noerror"), Http(500, "json"), Http(500, "overloaded"),
    Http(400, "noerror"), Http(400, "garbage"), NetErr }

\* error.message.includes('503') || includes('429') || includes('overloaded')
\* on a message <<prefix, status, text>> of tryWithKey.
IncludesFailoverMark(msg) ==
  /\ Len(msg) = 3
  /\ \/ msg[2] \in {503, 429}
     \/ msg[3] = "overloaded"

\* callGenerativeApi(prompt, apiKey, backupApiKey) is entered: tryWithKey with
\* the primary key, before its first fetch.
DualStart(backupApiKey) ==
  [ backupApiKey |-> backupApiKey,
    keyLabel     |-> "primary",
    model        |-> dualPrimaryModel,
    retried      |-> FALSE,
    waited       |-> 0,
    primaryError |-> NoError,
    outcome      |-> "running",
    thrown       |-> NoError,
    aiData       |-> "none",
    modelUsed    |-> "",
    keyUsed      |-> "" ]

\* Mutant: the result names the model the key started with.
tryWithKeyReturnInitialModel(t, body) ==
  [t EXCEPT !.outcome = "returned", !.aiData = body,
            !.modelUsed = dualPrimaryModel, !.keyUsed = t.keyLabel]

\* `return { aiData, modelUsed: model, keyUsed: keyLabel }`.
tryWithKeyReturn(t, body) ==
  [t EXCEPT !.outcome = "returned", !.aiData = body,
            !.modelUsed = t.model, !.keyUsed = t.keyLabel]

\* Mutant: the backup key is tried after any failure of the primary key.
dualKeyFailureAnyError(t, err) ==
  IF t.keyLabel = "primary"
    THEN IF t.backupApiKey
           THEN [t EXCEPT !.keyLabel = "backup", !.model = dualPrimaryModel,
                          !.retried = FALSE, !.primaryError = err]
           ELSE [t EXCEPT !.outcome = "threw", !.primaryError = err,
                          !.thrown = <<"Failed to communicate with Google AI API", err>>]
    ELSE [t EXCEPT !.outcome = "threw",
                   !.thrown = <<"Both API keys failed", t.primaryError, err>>]

\* The catch blocks of callGenerativeApi: err was thrown by tryWithKey for the
\* current key.
dualKeyFailure(t, err) ==
  IF t.keyLabel = "primary"
    THEN IF t.backupApiKey /\ IncludesFailoverMark(err)
           THEN [t EXCEPT !.keyLabel = "backup", !.model = dualPrimaryModel,
                          !.retried = FALSE, !.primaryError = err]
           ELSE [t EXCEPT !.outcome = "threw", !.primaryError = err,
                          !.thrown = <<"Failed to communicate with Google AI API", err>>]
    ELSE [t EXCEPT !.outcome = "threw",
                   !.thrown = <<"Both API keys failed", t.primaryError, err>>]

\* One fetch of tryWithKey with upstream result r, and everything
\* callGenerativeApi does until its next fetch, its return or its throw.
tryWithKey(t, r) ==
  CASE r.kind # "http" -> dualKeyFailure(t, <<"fetch failed">>)
    [] r.status = 429 /\ ~t.retried ->
         [t EXCEPT !.retried = TRUE, !.model = dualLiteModel,
                   !.waited = @ + rateLimitWaitMs]
    [] ~ResponseOk(r) ->
         CASE r.body \in {"json", "overloaded"} ->
                dualKeyFailure(t, <<"Google AI API error", r.status,
                                    IF r.body = "json" THEN "message" ELSE "overloaded">>)
           [] r.body = "garbage" ->
                dualKeyFailure(t, <<"Google AI API error", r.status,
                                    "Failed to parse error response.">>)
           [] OTHER ->
                dualKeyFailure(t, <<"Cannot read properties of undefined (reading 'message')">>)
    [] r.body = "garbage" -> dualKeyFailure(t, <<"Unexpected token in JSON">>)
    [] OTHER -> tryWithKeyReturn(t, r.body)

(***************************************************************************)
(* SpecDualKey: one call of each dual-key client, callGenerativeApi of     *)
(* src/qts-query.ts and callGenerativeApi of part_001, with the same       *)
(* choice of backup key, their fetches interleaved.  The first is called   *)
(* with config.maxRetries = MaxRetriesDualKey: two attempts per key are    *)
(* enough for every escalation (model switch, key failover) to happen.     *)
(***************************************************************************)
MaxRetriesDualKey == 2

\* No fetch result.
NoFetch == [kind |-> "none", status |-> 0, body |-> "none"]

\* nCalls: fetches made; lastCall: key label and model of the latest fetch;
\* lastOk: whether it returned 2xx; primaryFinal: the result of the fetch on
\* which tryWithKey threw for the primary key.
DualHistStart ==
  [nCalls |-> 0, lastCall |-> <<>>, lastOk |-> FALSE, primaryFinal |-> NoFetch]

DualRecord(hh, t, r) ==
  LET t2 == tryWithKey(t, r) IN
  [ nCalls       |-> hh.nCalls + 1,
    lastCall     |-> <<t.keyLabel, t.model>>,
    lastOk       |-> ResponseOk(r),
    primaryFinal |-> IF t.keyLabel = "primary"
                        /\ (t2.keyLabel = "backup" \/ t2.outcome = "threw")
                       THEN r ELSE hh.primaryFinal ]

InitDualKey ==
  /\ \E backupApiKey \in BOOLEAN :
       /\ q = QtsStart(backupApiKey, MaxRetriesDualKey)
       /\ d = DualStart(backupApiKey)
  /\ qHist = QtsHistStart
  /\ dHist = DualHistStart
  /\ LadderIdle
  /\ GateIdle
  /\ RetryIdle
  /\ HandlersIdle

DualCall ==
  /\ d.outcome = "running"
  /\ \E r \in DualResponses :
       /\ d' = tryWithKey(d, r)
       /\ dHist' = DualRecord(dHist, d, r)
  /\ UNCHANGED <<ladderVars, gateVars, qtsVars, retryVars, handlerVars>>

NextDualKey ==
  \/ QtsCall
  \/ DualCall

SpecDualKey == InitDualKey /\ [][NextDualKey]_vars

\* C13: a successful result's keyUsed and modelUsed are the key label and the
\* model of the fetch that returned 2xx (the latest fetch), in callGenerativeApi
\* of src/qts-query.ts and in callGenerativeApi of part_001 alike.
C13_ResultNamesSuccessfulPair ==
  /\ q.outcome = "returned" =>
       /\ <<q.keyUsed, q.modelUsed>> = qHist.lastCall
       /\ qHist.lastOk
  /\ d.outcome = "returned" =>
       /\ <<d.keyUsed, d.modelUsed>> = dHist.lastCall
       /\ dHist.lastOk

\* C13 witness: both clients escalated before succeeding, the first to the
\* fallback model on the backup key, the second to the lite model on the
\* backup key, and both results name the escalated pair.
C13_Witness ==
  /\ q.outcome = "returned"
  /\ <<q.keyUsed, q.modelUsed>> = <<"backup", qtsFallbackModel>>
  /\ d.outcome = "returned"
  /\ <<d.keyUsed, d.modelUsed>> = <<"backup", dualLiteModel>>

(***************************************************************************)
(* src/qts-query.ts : callGenerativeApiWithRetry (second handler)          *)
(***************************************************************************)
RETRY_CONFIG == [maxRetries |-> 2, initialDelay |-> 1000, maxDelay |-> 8000]

retryPrimaryModel == "gemini-2.5-flash"
retryLiteModel    == "gemini-2.5-flash-lite"

\* Results one fetch of callGenerativeApiWithRetry can get (bodies as for
\* callGenerativeApi).
RetryResponses ==
  { Http(200, "json"), Http(200, "garbage"), Http(429, "json"), Http(500, "json"),
    Http(503, "json"), Http(502, "json"), Http(400, "json"), Http(400, "noerror"),
    NetErr }

\* Values of Math.random(), in thousandths: 0, 0.5 and 0.999.
RandomDraws == {0, 500, 999}

Min(a, b) == IF a <= b THEN a ELSE b

\* Math.min(Math.pow(2, attempt) * initialDelay + Math.random() * initialDelay,
\*          maxDelay), the sleep after a retryable status.
statusBackoff(attempt, random) ==
  Min(Pow(2, attempt) * RETRY_CONFIG.initialDelay
        + (random * RETRY_CONFIG.initialDelay) \div 1000,
      RETRY_CONFIG.maxDelay)

\* Mutant: the exponential term grows in powers of ten.
exceptionBackoffPowersOfTen(attempt, random) ==
  Pow(10, attempt) * RETRY_CONFIG.initialDelay + (random * 1000) \div 1000

\* Math.pow(2, attempt) * initialDelay + Math.random() * 1000, the sleep after
\* a caught exception.
exceptionBackoff(attempt, random) ==
  Pow(2, attempt) * RETRY_CONFIG.initialDelay + (random * 1000) \div 1000

\* The locals before the first fetch.
RetryStart ==
  [ attempt   |-> 0,
    model     |-> retryPrimaryModel,
    slept     |-> 0,
    outcome   |-> "running",
    thrown    |-> NoError,
    aiData    |-> "none",
    modelUsed |-> "" ]

\* The throw after the loop.
AfterLoopError == <<"API call failed after all retry attempts.">>

\* Mutant: the model is never switched.
retryNextAttemptKeepModel(t, delay) ==
  IF t.attempt + 1 <= RETRY_CONFIG.maxRetries
    THEN [t EXCEPT !.attempt = @ + 1, !.slept = delay]
    ELSE [t EXCEPT !.attempt = @ + 1, !.slept = delay,
                   !.outcome = "threw", !.thrown = AfterLoopError]

\* The end of a loop iteration after a sleep: attempt++, then the loop
\* condition attempt <= maxRetries: the switch to the lighter model at the
\* top of iteration 1, or the throw after the loop.
retryNextAttempt(t, delay) ==
  IF t.attempt + 1 <= RETRY_CONFIG.maxRetries
    THEN [t EXCEPT !.attempt = @ + 1, !.slept = delay,
                   !.model = IF t.attempt + 1 = 1 THEN retryLiteModel ELSE @]
    ELSE [t EXCEPT !.attempt = @ + 1, !.slept = delay,
                   !.outcome = "threw", !.thrown = AfterLoopError]

\* Mutant: the catch block retries at the last attempt index as well.
retryCatchOffByOne(t, msg, random) ==
  IF t.attempt <= RETRY_CONFIG.maxRetries
    THEN retryNextAttempt(t, exceptionBackoff(t.attempt, random))
    ELSE [t EXCEPT !.outcome = "threw", !.slept = 0,
                   !.thrown = <<"Failed to communicate with Google AI API after",
                                RETRY_CONFIG.maxRetries + 1, msg>>]

\* catch (error) of the loop body.
retryCatch(t, msg, random) ==
  IF t.attempt < RETRY_CONFIG.maxRetries
    THEN retryNextAttempt(t, exceptionBackoff(t.attempt, random))
    ELSE [t EXCEPT !.outcome = "threw", !.slept = 0,
                   !.thrown = <<"Failed to communicate with Google AI API after",
                                RETRY_CONFIG.maxRetries + 1, msg>>]

\* One fetch of callGenerativeApiWithRetry with upstream result r and the
\* value `random` of Math.random(), and everything the function does until its
\* next fetch, its return or its throw.
callGenerativeApiWithRetry(t, r, random) ==
  CASE r.kind # "http" -> retryCatch(t, <<"fetch failed">>, random)
    [] ResponseOk(r) ->
         IF r.body = "garbage"
           THEN retryCatch(t, <<"Unexpected token in JSON">>, random)
           ELSE [t EXCEPT !.outcome = "returned", !.slept = 0, !.aiData = r.body,
                          !.modelUsed = t.model]
    [] r.status \in {429, 500, 503} /\ t.attempt < RETRY_CONFIG.maxRetries ->
         retryNextAttempt(t, statusBackoff(t.attempt, random))
    [] OTHER ->
         IF r.body = "noerror"
           THEN retryCatch(t, <<"Cannot read properties of undefined (reading 'message')">>,
                           random)
           ELSE retryCatch(t, <<NonRetryable, r.status,
                                IF r.body = "json" THEN "message"
                                ELSE "Failed to parse error response.">>, random)

(***************************************************************************)
(* SpecRetry: one call of callGenerativeApiWithRetry.                      *)
(***************************************************************************)
InitRetry ==
  /\ w = RetryStart
  /\ wHist = <<>>
  /\ SingleIdle
  /\ LadderIdle
  /\ GateIdle
  /\ QtsIdle
  /\ DualIdle
  /\ HandlersIdle

RetryCall ==
  /\ w.outcome = "running"
  /\ \E r \in RetryResponses, random \in RandomDraws :
       LET t == callGenerativeApiWithRetry(w, r, random) IN
       /\ w' = t
       /\ wHist' = Append(wHist, [attempt |-> w.attempt, model |-> w.model,
                                  r |-> r, slept |-> t.slept])
  /\ UNCHANGED <<ladderVars, gateVars, qtsVars, dualVars, singleVars, handlerVars>>

NextRetry == RetryCall

SpecRetry == InitRetry /\ [][NextRetry]_vars

\* C15: every backoff sleep of callGenerativeApiWithRetry, after a retryable
\* status or after a thrown error, at every attempt index 0 .. maxRetries - 1,
\* is at most RETRY_CONFIG.maxDelay (8000 ms); a sleep is taken after every
\* failed attempt but the last.
C15_SleepsAtMostMaxDelay ==
  /\ Len(wHist) <= RETRY_CONFIG.maxRetries + 1
  /\ \A i \in 1 .. Len(wHist) :
       /\ wHist[i].attempt = i - 1
       /\ wHist[i].slept <= RETRY_CONFIG.maxDelay
       /\ (i < Len(wHist) \/ w.outcome = "running") <=> wHist[i].slept > 0
       /\ wHist[i].slept > 0 => wHist[i].attempt < RETRY_CONFIG.maxRetries

\* C15 witness: a sleep after a retryable status at attempt index 0 and a
\* sleep after a thrown network error at attempt index 1, both with the
\* greatest jitter, the second being the longest sleep the function takes.
C15_Witness ==
  /\ Len(wHist) = 2
  /\ wHist[1].r = Http(503, "json")
  /\ wHist[1].slept = 1999
  /\ wHist[2].r = NetErr
  /\ wHist[2].slept = 2999

(***************************************************************************)
(* The single-retry variants: the Deno.serve handler of src/unnamed/       *)
(* part_002 and the single-key callGenerativeApi of src/unnamed/part_001.  *)
(* Both make one fetch with gemini-2.5-flash and, after a 429, wait three  *)
(* seconds and make one more with gemini-2.5-flash-lite.                   *)
(***************************************************************************)
singlePrimaryModel == "gemini-2.5-flash"
singleLiteModel    == "gemini-2.5-flash-lite"

\* The locals before the first fetch.  stored: the model_used of the row
\* inserted into gemini_responses, "" while there is none.
SingleStart ==
  [ model     |-> singlePrimaryModel,
    retried   |-> FALSE,
    waited    |-> 0,
    outcome   |-> "running",
    thrown    |-> NoError,
    aiData    |-> "none",
    modelUsed |-> "",
    stored    |-> "" ]

\* Mutant: the retry after a 429 keeps the first model.
singleRetryKeepModel(t) ==
  [t EXCEPT !.retried = TRUE, !.waited = @ + rateLimitWaitMs]

\* if (response.status === 429) { wait 3 s; model = lite; fetch again }
singleRetry(t) ==
  [t EXCEPT !.retried = TRUE, !.model = singleLiteModel, !.waited = @ + rateLimitWaitMs]

singleThrow(t, msg) == [t EXCEPT !.outcome = "threw", !.thrown = msg]

\* One fetch of the handler of part_002 with upstream result r and the rest
\* of the handler until its next fetch or its response.  hasText: the parsed
\* body carries candidates[0].content.parts[0].text; insertFails: the insert
\* into gemini_responses returns an error (logged, the response is the same).
part002Handler(t, r, hasText, insertFails) ==
  CASE r.kind # "http" -> singleThrow(t, <<"fetch failed">>)
    [] r.status = 429 /\ ~t.retried -> singleRetry(t)
    [] ~ResponseOk(r) ->
         CASE r.body \in {"json", "overloaded"} ->
                singleThrow(t, <<"Google AI API error",
                                 IF r.body = "json" THEN "message" ELSE "overloaded">>)
           [] r.body = "garbage" -> singleThrow(t, <<"Unexpected token in JSON">>)
           [] OTHER ->
                singleThrow(t, <<"Cannot read properties of undefined (reading 'message')">>)
    [] r.body = "garbage" -> singleThrow(t, <<"Unexpected token in JSON">>)
    [] r.body = "null" ->
         singleThrow(t, <<"Cannot read properties of null (reading 'candidates')">>)
    [] ~hasText -> singleThrow(t, <<"Could not extract text from the AI's response.">>)
    [] OTHER ->
         [t EXCEPT !.outcome = "returned", !.aiData = r.body, !.modelUsed = t.model,
                   !.stored = IF insertFails THEN "" ELSE t.model]

\* catch (error) of the single-key callGenerativeApi of part_001.
singleKeyCatch(t, msg) ==
  singleThrow(t, <<"Failed to communicate with Google AI API", msg>>)

\* One fetch of the single-key callGenerativeApi of part_001 with upstream
\* result r, and the rest of the function until its next fetch, its return
\* or its throw.
callGenerativeApiSingleKey(t, r) ==
  CASE r.kind # "http" -> singleKeyCatch(t, <<"fetch failed">>)
    [] r.status = 429 /\ ~t.retried -> singleRetry(t)
    [] ~ResponseOk(r) ->
         CASE r.body \in {"json", "overloaded"} ->
                singleKeyCatch(t, <<"Google AI API error", r.status,
                                    IF r.body = "json" THEN "message" ELSE "overloaded">>)
           [] r.body = "garbage" ->
                singleKeyCatch(t, <<"Google AI API error", r.status,
                                    "Failed to parse error response.">>)
           [] OTHER ->
                singleKeyCatch(t, <<"Cannot read properties of undefined (reading 'message')">>)
    [] r.body = "garbage" -> singleKeyCatch(t, <<"Unexpected token in JSON">>)
    [] OTHER -> [t EXCEPT !.outcome = "returned", !.aiData = r.body, !.modelUsed = t.model]

(***************************************************************************)
(* SpecSingleRetry: one run of one of the single-retry variants, one step  *)
(* per fetch: the handler of part_002, the single-key callGenerativeApi of *)
(* part_001, or the dual-key callGenerativeApi of part_001 (tryWithKey     *)
(* once per key), with or without a backup key.                            *)
(***************************************************************************)
SingleVariants == {"part_002", "singleKey", "dualKey"}

\* variant: the variant that runs; log: the fetches made, each with the key
\* label, the model and the upstream result.
SingleHistStart(v) == [variant |-> v, log |-> <<>>]

InitSingleRetry ==
  /\ \E v \in SingleVariants, backupApiKey \in BOOLEAN :
       /\ sr = IF v = "dualKey" THEN DualStart(backupApiKey)
               ELSE SingleStart
       /\ srHist = SingleHistStart(v)
  /\ w = <<>>
  /\ wHist = <<>>
  /\ LadderIdle
  /\ GateIdle
  /\ QtsIdle
  /\ DualIdle
  /\ HandlersIdle

\* The key label of the fetch about to be made.
SingleKeyLabel == IF srHist.variant = "dualKey" THEN sr.keyLabel ELSE "primary"

Part002Call ==
  /\ srHist.variant = "part_002"
  /\ sr.outcome = "running"
  /\ \E r \in DualResponses, hasText \in BOOLEAN, insertFails \in BOOLEAN :
       /\ sr' = part002Handler(sr, r, hasText, insertFails)
       /\ srHist' = [srHist EXCEPT !.log =
                       Append(@, [key |-> "primary", model |-> sr.model, r |-> r])]
  /\ UNCHANGED <<ladderVars, gateVars, qtsVars, dualVars, w, wHist, handlerVars>>

SingleKeyCall ==
  /\ srHist.variant = "singleKey"
  /\ sr.outcome = "running"
  /\ \E r \in DualResponses :
       /\ sr' = callGenerativeApiSingleKey(sr, r)
       /\ srHist' = [srHist EXCEPT !.log =
                       Append(@, [key |-> "primary", model |-> sr.model, r |-> r])]
  /\ UNCHANGED <<ladderVars, gateVars, qtsVars, dualVars, w, wHist, handlerVars>>

TryWithKeyCall ==
  /\ srHist.variant = "dualKey"
  /\ sr.outcome = "running"
  /\ \E r \in DualResponses :
       /\ sr' = tryWithKey(sr, r)
       /\ srHist' = [srHist EXCEPT !.log =
                       Append(@, [key |-> sr.keyLabel, model |-> sr.model, r |-> r])]
  /\ UNCHANGED <<ladderVars, gateVars, qtsVars, dualVars, w, wHist, handlerVars>>

NextSingleRetry ==
  \/ Part002Call
  \/ SingleKeyCall
  \/ TryWithKeyCall

SpecSingleRetry == InitSingleRetry /\ [][NextSingleRetry]_vars

(***************************************************************************)
(* src/unnamed/part_000 : cooldown helpers and the Deno.serve handler      *)
(***************************************************************************)
RATE_LIMIT_COOLDOWN_MS == 45 * 60 * 1000

\* Date.prototype.toISOString keeps whole seconds and three digits of
\* milliseconds; new Date(string) reads both back.
toISOString(t) == [sec |-> t \div 1000, milli |-> t % 1000]
DateParse(iso) == iso.sec * 1000 + iso.milli

NoRow == [id |-> 0]

\* Mutant: the row stored last, whatever its cooldown_until.
LatestRowByInsertion(table) ==
  CHOOSE r \in table : \A o \in table : o.id <= r.id

\* The row with the greatest cooldown_until (ties: any one of them).
LatestRow(table) ==
  CHOOSE r \in table :
    \A o \in table : DateParse(o.cooldown_until) <= DateParse(r.cooldown_until)

\* .from('gemini_rate_limit_cooldown').select('cooldown_until')
\*   .order('cooldown_until', { ascending: false }).limit(1).single()
SelectLatestCooldown(table, storeFails) ==
  IF storeFails THEN [error |-> "500", data |-> NoRow]
  ELSE IF table = {} THEN [error |-> "PGRST116", data |-> NoRow]
  ELSE [error |-> "none", data |-> LatestRow(table)]

\* Mutant: the operands of the comparison are swapped.
isInCooldownSwapped(res, t) ==
  IF res.error # "none" /\ res.error # "PGRST116" THEN FALSE
  ELSE IF res.data = NoRow THEN FALSE
  ELSE DateParse(res.data.cooldown_until) < t

\* Mutant: a stored row means cooldown, whatever the time.
isInCooldownSticky(res, t) ==
  IF res.error # "none" /\ res.error # "PGRST116" THEN FALSE
  ELSE res.data # NoRow

\* Mutant: the comparison admits the instant cooldown_until itself.
isInCooldownInclusive(res, t) ==
  IF res.error # "none" /\ res.error # "PGRST116" THEN FALSE
  ELSE IF res.data = NoRow THEN FALSE
  ELSE t <= DateParse(res.data.cooldown_until)

\* Mutant: a failed read blocks the invocation (fail closed).
isInCooldownFailClosed(res, t) ==
  IF res.error # "none" /\ res.error # "PGRST116" THEN TRUE
  ELSE IF res.data = NoRow THEN FALSE
  ELSE t < DateParse(res.data.cooldown_until)

\* Mutant: the cooldown is never reported.
isInCooldownNever(res, t) == FALSE

\* isInCooldown, given what the select returned and the value of new Date().
isInCooldown(res, t) ==
  IF res.error # "none" /\ res.error # "PGRST116" THEN FALSE
  ELSE IF res.data = NoRow THEN FALSE
  ELSE t < DateParse(res.data.cooldown_until)

\* The row setCooldown builds when it is called at time t.
CooldownRow(t) ==
  [ cooldown_until |-> toISOString(t + RATE_LIMIT_COOLDOWN_MS),
    created_at     |-> toISOString(t) ]

\* Mutant: the row is stored although the insert reports an error.
setCooldownStoresAnyway(table, row, insertFails) ==
  table \cup { [ id             |-> Cardinality(table) + 1,
                 cooldown_until |-> row.cooldown_until,
                 created_at     |-> row.created_at ] }

\* The insert of setCooldown reaching the store: a new row, or an error that
\* is only logged.
setCooldown(table, row, insertFails) ==
  IF insertFails THEN table
  ELSE table \cup { [ id             |-> Cardinality(table) + 1,
                      cooldown_until |-> row.cooldown_until,
                      created_at     |-> row.created_at ] }

Response(st, bodyStatus) == [status |-> st, body |-> bodyStatus]
NoResponse == Response(0, "none")

\* Every state callGenerativeApiWithPrioritySearch can reach from `frontier`.
RECURSIVE LadderReach(_, _)
LadderReach(frontier, seen) ==
  IF frontier = {} THEN seen
  ELSE LET nxt == { callGenerativeApiWithPrioritySearch(l, r) :
                      l \in { x \in frontier : x.outcome = "running" },
                      r \in LadderResponses }
           new == nxt \ seen
       IN LadderReach(new, seen \cup new)

\* What the handler sees of a finished ladder: `result` or the caught `error`.
LadderResult(l) ==
  [ outcome     |-> l.outcome,
    message     |-> l.thrown,
    modelUsed   |-> IF l.outcome = "returned" THEN l.modelUsed ELSE "",
    aggregation |-> l.aggregation,
    quadrateSearchCompleted |-> l.quadrateSearchCompleted,
    generalSearchCompleted  |-> l.generalSearchCompleted ]

NoResult ==
  [ outcome |-> "none", message |-> NoError, modelUsed |-> "", aggregation |-> "none",
    quadrateSearchCompleted |-> FALSE, generalSearchCompleted |-> FALSE ]

\* The ways `await geminiClient.callGenerativeApiWithPrioritySearch(prompt,
\* geminiApiKey, geminiBackupApiKey)` can end, over every sequence of upstream
\* results.  Each of them makes at least one outbound call.
LadderResults ==
  { LadderResult(l) :
      l \in { x \in LadderReach({LadderStart(TRUE)}, {LadderStart(TRUE)}) :
                x.outcome # "running" } }

IdleInv ==
  [ pc           |-> "idle",
    credentials  |-> "unread",
    result       |-> NoResult,
    inCooldown   |-> FALSE,
    checked      |-> FALSE,
    readFailed   |-> FALSE,
    checkedAt    |-> -1,
    sawUntil     |-> -1,
    sawRows      |-> 0,
    raced        |-> FALSE,
    nLadder      |-> 0,
    checkedFirst |-> TRUE,
    nSetCooldown |-> 0,
    setDone      |-> FALSE,
    insertFailed |-> FALSE,
    pendingRow   |-> NoRow,
    health       |-> <<>>,
    healthGone   |-> 0,
    sawDeletion  |-> FALSE,
    response     |-> NoResponse ]

\* health: the rows the invocation has inserted into api_health_checks;
\* healthGone: how many of them have been deleted; sawDeletion: a deletion
\* has emptied the table during the invocation.  Both are followed in
\* SpecDeletion only.  The rows of the invocation that are still stored:
StoredHealth(h) == SubSeq(h.health, h.healthGone + 1, Len(h.health))

\* Mutant: the handler runs the ladder whatever isInCooldown returned.
afterCooldownCheckIgnore(h, inCooldown) == [h EXCEPT !.pc = "ladder"]

\* Mutant: the skipped path answers without recording a health check.
afterCooldownCheckNoHealth(h, inCooldown) ==
  IF inCooldown
    THEN [h EXCEPT !.pc = "done", !.response = Response(429, "skipped")]
    ELSE [h EXCEPT !.pc = "ladder"]

\* Lines 467-507: the skipped response, or on towards the ladder.
afterCooldownCheck(h, inCooldown) ==
  IF inCooldown
    THEN [h EXCEPT !.pc = "done", !.health = Append(@, FALSE),
                   !.response = Response(429, "skipped")]
    ELSE [h EXCEPT !.pc = "ladder"]

\* Mutant: the 429 branch answers without calling setCooldown.
afterLadderNoCooldown(h, t) ==
  CASE h.result.outcome = "returned" ->
         [h EXCEPT !.pc = "done", !.health = Append(@, TRUE),
                   !.response = Response(200, "success")]
    [] h.result.message = RATE_LIMIT_429 ->
         [h EXCEPT !.pc = "done", !.health = Append(@, FALSE),
                   !.response = Response(429, "error")]
    [] OTHER ->
         [h EXCEPT !.pc = "done", !.health = Append(@, FALSE),
                   !.response = Response(500, "error")]

\* Mutant: every failure of the ladder sets the cooldown.
afterLadderCooldownOnAnyError(h, t) ==
  CASE h.result.outcome = "returned" ->
         [h EXCEPT !.pc = "done", !.health = Append(@, TRUE),
                   !.response = Response(200, "success")]
    [] OTHER ->
         [h EXCEPT !.pc = "setCooldown", !.nSetCooldown = @ + 1,
                   !.pendingRow = CooldownRow(t)]

\* Lines 520-591, entered when the ladder has returned or thrown at time t:
\* the success response, the call of setCooldown, or the 500 response.
afterLadder(h, t) ==
  CASE h.result.outcome = "returned" ->
         [h EXCEPT !.pc = "done", !.health = Append(@, TRUE),
                   !.response = Response(200, "success")]
    [] h.result.message = RATE_LIMIT_429 ->
         [h EXCEPT !.pc = "setCooldown", !.nSetCooldown = @ + 1,
                   !.pendingRow = CooldownRow(t)]
    [] OTHER ->
         [h EXCEPT !.pc = "done", !.health = Append(@, FALSE),
                   !.response = Response(500, "error")]

\* Mutant: the rate-limited path answers 500 like any other failure.
afterSetCooldownAnswers500(h) ==
  [h EXCEPT !.pc = "done", !.setDone = TRUE, !.health = Append(@, FALSE),
            !.response = Response(500, "error")]

\* Lines 552-570: `await setCooldown(supabase)` has completed.
afterSetCooldown(h) ==
  [h EXCEPT !.pc = "done", !.setDone = TRUE, !.health = Append(@, FALSE),
            !.response = Response(429, "error")]

(***************************************************************************)
(* SpecGate: interleaved invocations of the handler.  The clock advances   *)
(* in steps of half the cooldown; one run of the ladder (at most 24 calls  *)
(* of 15 s and 16 sleeps of a few seconds) is shorter than a step and is   *)
(* one action here, its outbound calls being those of SpecLadder.          *)
(***************************************************************************)
MaxTicks  == 2
MaxStarts == 2
TickMs    == RATE_LIMIT_COOLDOWN_MS \div 2
Invs      == {"a", "b"}

\* started: requests so far; t429: the times at which a ladder ended with
\* RATE_LIMIT_429; deletion: whether a background deletion is on its way to
\* the store ("inFlight") or the latest one issued has reached it ("landed");
\* deletions in flight at the same time delete the same rows and are kept as
\* one.
GateHistStart == [started |-> 0, t429 |-> {}, deletion |-> "none"]

\* Mutant: the background deletion is aimed at the cooldown table.
randomDeletionTableCooldown == "gemini_rate_limit_cooldown"

\* supabase.from('api_health_checks').delete() of the random deletion.
randomDeletionTable == "api_health_checks"

\* Mutant: the delete removes nothing.
afterDeleteNothing(target, name, rows, empty) == rows

\* .delete().not('is_successful', 'is', null) on table `target` reaching the
\* store: what it leaves of the rows of table `name`.  Every row of
\* api_health_checks is inserted with is_successful set.
afterDelete(target, name, rows, empty) == IF name = target THEN empty ELSE rows

\* The greatest cooldown_until stored, or -1 when the table is empty.
GreatestUntil(table) ==
  IF table = {} THEN -1
  ELSE CHOOSE u \in { DateParse(r.cooldown_until) : r \in table } :
         \A r \in table : DateParse(r.cooldown_until) <= u

InitGate ==
  /\ now = 0
  /\ cooldownTable = {}
  /\ inv = [i \in Invs |-> IdleInv]
  /\ gateHist = GateHistStart
  /\ LadderIdle
  /\ QtsIdle
  /\ DualIdle
  /\ RetryIdle
  /\ HandlersIdle

\* Time passes.
Tick ==
  /\ now < MaxTicks * TickMs
  /\ now' = now + TickMs
  /\ UNCHANGED <<cooldownTable, inv, gateHist, ladderVars, qtsVars, dualVars, retryVars, handlerVars>>

\* A request arrives (lines 437-462).
Request(i) ==
  /\ inv[i].pc = "idle"
  /\ gateHist.started < MaxStarts
  /\ \E method \in {"GET", "OPTIONS"}, haveCredentials \in BOOLEAN :
       inv' = [inv EXCEPT ![i] =
                 IF method = "OPTIONS"
                   THEN [@ EXCEPT !.pc = "done", !.response = Response(200, "ok")]
                 ELSE IF ~haveCredentials
                   THEN [@ EXCEPT !.pc = "done", !.credentials = "missing",
                                  !.response = Response(500, "error")]
                 ELSE [@ EXCEPT !.pc = "check", !.credentials = "present"]]
  /\ gateHist' = [gateHist EXCEPT !.started = @ + 1]
  /\ UNCHANGED <<now, cooldownTable, ladderVars, qtsVars, dualVars, retryVars, handlerVars>>

\* `await isInCooldown(supabase)` and the statements after it up to the call
\* of the ladder (lines 464-507).
CheckCooldown(i) ==
  /\ inv[i].pc = "check"
  /\ \E storeFails \in BOOLEAN, randomDelete \in BOOLEAN :
       LET res == SelectLatestCooldown(cooldownTable, storeFails)
           ans == isInCooldown(res, now)
           h   == [inv[i] EXCEPT
                     !.inCooldown = ans, !.checked = TRUE, !.readFailed = storeFails,
                     !.checkedAt = now, !.sawUntil = GreatestUntil(cooldownTable),
                     !.sawRows = Cardinality(cooldownTable)]
           g   == afterCooldownCheck(h, ans)
       IN /\ inv' = [inv EXCEPT ![i] = g]
          /\ gateHist' =
               IF g.pc = "ladder" /\ randomDelete
                 THEN [gateHist EXCEPT !.deletion = "inFlight"]
                 ELSE gateHist
  /\ UNCHANGED <<now, cooldownTable, ladderVars, qtsVars, dualVars, retryVars, handlerVars>>

\* `await geminiClient.callGenerativeApiWithPrioritySearch(...)` with its
\* outbound calls, and the handler's reaction to how it ends (lines 509-591).
LadderEnded(i, res) ==
  LET h == [inv[i] EXCEPT !.result = res, !.nLadder = @ + 1,
                          !.checkedFirst = @ /\ inv[i].checked,
                          !.raced = /\ inv[i].checked /\ ~inv[i].readFailed
                                    /\ \E r \in cooldownTable :
                                         now < DateParse(r.cooldown_until)]
  IN /\ inv' = [inv EXCEPT ![i] = afterLadder(h, now)]
     /\ gateHist' = IF res.message = RATE_LIMIT_429
                      THEN [gateHist EXCEPT !.t429 = @ \cup {now}]
                      ELSE gateHist

RunLadder(i) ==
  /\ inv[i].pc = "ladder"
  /\ \E res \in LadderResults : LadderEnded(i, res)
  /\ UNCHANGED <<now, cooldownTable, ladderVars, qtsVars, dualVars, retryVars, handlerVars>>

\* The insert issued by setCooldown reaches the store, and the handler
\* answers (lines 421-433, 552-570).
InsertCooldown(i) ==
  /\ inv[i].pc = "setCooldown"
  /\ \E insertFails \in BOOLEAN :
       /\ cooldownTable' = setCooldown(cooldownTable, inv[i].pendingRow, insertFails)
       /\ inv' = [inv EXCEPT ![i] =
                    [afterSetCooldown(inv[i]) EXCEPT !.insertFailed = insertFails]]
  /\ UNCHANGED <<now, gateHist, ladderVars, qtsVars, dualVars, retryVars, handlerVars>>

\* The delete issued by the random deletion (lines 494-507) reaches the
\* store, at any time after it was issued; its outcome is only logged.  The
\* rows of api_health_checks are not followed here (see HealthDeletion).
BackgroundDeletion ==
  /\ gateHist.deletion = "inFlight"
  /\ \E deleteFails \in BOOLEAN :
       LET target == IF deleteFails THEN "none" ELSE randomDeletionTable IN
       /\ cooldownTable' = afterDelete(target, "gemini_rate_limit_cooldown", cooldownTable, {})
       /\ gateHist' = [gateHist EXCEPT !.deletion = "landed"]
  /\ UNCHANGED <<now, inv, ladderVars, qtsVars, dualVars, retryVars, handlerVars>>

\* The response has been sent; the instance serves the next request.
Finish(i) ==
  /\ inv[i].pc = "done"
  /\ inv' = [inv EXCEPT ![i] = IdleInv]
  /\ UNCHANGED <<now, cooldownTable, gateHist, ladderVars, qtsVars, dualVars, retryVars, handlerVars>>

\* BackgroundDeletion with the rows of api_health_checks that the invocations
\* in progress inserted followed as well: a delete that succeeds removes the
\* rows stored when it reaches the store.
HealthDeletion ==
  /\ gateHist.deletion = "inFlight"
  /\ \E deleteFails \in BOOLEAN :
       LET target == IF deleteFails THEN "none" ELSE randomDeletionTable IN
       /\ cooldownTable' = afterDelete(target, "gemini_rate_limit_cooldown", cooldownTable, {})
       /\ inv' = [i \in DOMAIN inv |->
                    [inv[i] EXCEPT
                       !.healthGone =
                         Len(inv[i].health)
                           - Len(afterDelete(target, "api_health_checks",
                                             StoredHealth(inv[i]), <<>>)),
                       !.sawDeletion = @ \/ target = "api_health_checks"]]
       /\ gateHist' = [gateHist EXCEPT !.deletion = "landed"]
  /\ UNCHANGED <<now, ladderVars, qtsVars, dualVars, retryVars, handlerVars>>

NextGate ==
  \/ Tick
  \/ \E i \in Invs : Request(i)
  \/ \E i \in Invs : CheckCooldown(i)
  \/ \E i \in Invs : RunLadder(i)
  \/ \E i \in Invs : InsertCooldown(i)
  \/ BackgroundDeletion
  \/ \E i \in Invs : Finish(i)

SpecGate == InitGate /\ [][NextGate]_vars

(***************************************************************************)
(* SpecServe: one invocation ("a") of the handler, the ladder making its   *)
(* outbound calls one at a time.  The table is empty or holds the row of   *)
(* an earlier 429; the clock is not advanced (the invocation is over       *)
(* within minutes, the cooldown lasts 45).                                 *)
(***************************************************************************)
InitServe ==
  /\ now = 0
  /\ cooldownTable \in { {}, setCooldown({}, CooldownRow(0), FALSE) }
  /\ inv = [i \in Invs |-> IdleInv]
  /\ gateHist = GateHistStart
  /\ lad = LadderStart(TRUE)
  /\ ladHist = [nCalls |-> 0, saw429 |-> FALSE, timedOut |-> FALSE]
  /\ QtsIdle
  /\ DualIdle
  /\ RetryIdle
  /\ HandlersIdle

\* The one request of this specification arrives.
ServeRequest ==
  /\ gateHist.started = 0
  /\ Request("a")

\* One outbound call of the ladder the handler awaits.
ServeLadderCall ==
  /\ inv["a"].pc = "ladder"
  /\ lad.outcome = "running"
  /\ \E upstream \in LadderResponses \ {Aborted}, duration \in Durations :
       LET r == fetchWithTimeout(upstream, duration) IN
       /\ lad' = callGenerativeApiWithPrioritySearch(lad, r)
       /\ ladHist' = [nCalls |-> ladHist.nCalls + 1,
                      saw429 |-> ladHist.saw429 \/ (r.kind = "http" /\ r.status = 429),
                      timedOut |-> duration > timeoutMs]
  /\ UNCHANGED <<gateVars, qtsVars, dualVars, retryVars, handlerVars>>

\* The ladder has returned or thrown: the handler's reaction (lines 515-591).
ServeLadderEnd ==
  /\ inv["a"].pc = "ladder"
  /\ lad.outcome # "running"
  /\ LadderEnded("a", LadderResult(lad))
  /\ UNCHANGED <<now, cooldownTable, ladderVars, qtsVars, dualVars, retryVars, handlerVars>>

NextServe ==
  \/ ServeRequest
  \/ CheckCooldown("a")
  \/ ServeLadderCall
  \/ ServeLadderEnd
  \/ InsertCooldown("a")
  \/ BackgroundDeletion
  \/ Finish("a")

SpecServe == InitServe /\ [][NextServe]_vars

(***************************************************************************)
(* SpecDeletion: one invocation ("a") of the handler as in SpecServe, the  *)
(* ladder run as one step, with the rows of api_health_checks followed:    *)
(* the background deletion reaches the store at any time after it was      *)
(* issued, before or after the handler's own insert.                       *)
(***************************************************************************)
InitDeletion ==
  /\ now = 0
  /\ cooldownTable \in { {}, setCooldown({}, CooldownRow(0), FALSE) }
  /\ inv = [i \in Invs |-> IdleInv]
  /\ gateHist = GateHistStart
  /\ LadderIdle
  /\ QtsIdle
  /\ DualIdle
  /\ RetryIdle
  /\ HandlersIdle

NextDeletion ==
  \/ ServeRequest
  \/ CheckCooldown("a")
  \/ RunLadder("a")
  \/ InsertCooldown("a")
  \/ HealthDeletion
  \/ Finish("a")

SpecDeletion == InitDeletion /\ [][NextDeletion]_vars

\* The runtime resumes the handler when the operation it awaits settles, and
\* every fetch settles (a status, a failure, or the abort after timeoutMs).
SpecServeLive ==
  /\ SpecServe
  /\ WF_vars(CheckCooldown("a"))
  /\ WF_vars(ServeLadderCall)
  /\ WF_vars(ServeLadderEnd)
  /\ WF_vars(InsertCooldown("a"))

\* The longest backoff sleep: the one before the last attempt of a pair.
LongestSleep == initialDelay * Pow(backoffFactor, maxRetries - 2) + jitterBound

IssuesCalls(i) == inv[i].pc = "ladder" /\ inv'[i].pc # "ladder"

\* A 429 was received at a time T with T <= t < T + 45 min.
Within45MinOf429(t) ==
  \E T \in gateHist.t429 : T <= t /\ t < T + RATE_LIMIT_COOLDOWN_MS

RowsComeFrom429 ==
  \A r \in cooldownTable :
    /\ DateParse(r.created_at) \in gateHist.t429
    /\ DateParse(r.cooldown_until) = DateParse(r.created_at) + RATE_LIMIT_COOLDOWN_MS

\* The cooldown read of invocation i succeeded and found a stored row whose
\* cooldown_until was still ahead.
CheckedWhileCooling(i) ==
  inv[i].checked /\ ~inv[i].readFailed /\ inv[i].checkedAt < inv[i].sawUntil

C2_CheckFirstAndSkip ==
  \A i \in Invs :
    /\ (inv[i].nLadder > 0 \/ inv[i].pc \in {"ladder", "setCooldown"}) =>
         (inv[i].checked /\ inv[i].checkedFirst)
    /\ inv[i].inCooldown =>
         /\ inv[i].nLadder = 0
         /\ inv[i].pc = "done"
         /\ inv[i].response = Response(429, "skipped")

\* C2 witness: an invocation was answered 429 "skipped".
C2_Witness ==
  \E i \in Invs : inv[i].inCooldown /\ inv[i].response = Response(429, "skipped")

\* C3: when the ladder ends with RATE_LIMIT_429 the handler calls setCooldown
\* exactly once in that invocation, and the call has completed when the 429
\* response is returned.
C3_SetCooldownOnceBeforeResponse ==
  \A i \in Invs :
    (inv[i].result.outcome = "threw" /\ inv[i].result.message = RATE_LIMIT_429) =>
      /\ inv[i].nSetCooldown = 1
      /\ inv[i].response # NoResponse =>
           (inv[i].setDone /\ inv[i].response = Response(429, "error"))

\* C3 witness: an invocation whose ladder ended with RATE_LIMIT_429 has
\* answered.
C3_Witness ==
  \E i \in Invs :
    /\ inv[i].result.message = RATE_LIMIT_429
    /\ inv[i].setDone
    /\ inv[i].response.status = 429

C5_FailOpen ==
  \A i \in Invs :
    (inv[i].checked /\ (inv[i].readFailed \/ inv[i].sawUntil = -1)) =>
      /\ ~inv[i].inCooldown
      /\ inv[i].pc = "ladder" \/ inv[i].nLadder = 1
      /\ inv[i].response # Response(429, "skipped")

\* C5 witness: the read failed while an unexpired record was stored, and the
\* invocation ran the ladder.
C5_Witness ==
  \E i \in Invs :
    /\ inv[i].checked /\ inv[i].readFailed
    /\ inv[i].checkedAt < inv[i].sawUntil
    /\ inv[i].nLadder = 1

\* The structured JSON answers of the handler: HTTP status and body.status.
StructuredResponses ==
  { Response(200, "success"), Response(429, "skipped"), Response(429, "error"),
    Response(500, "error") }

\* C17: the handler answers 200 "success" iff the ladder returned a result,
\* 429 "skipped" iff the invocation was gated by the cooldown, 429 "error" iff
\* the ladder ended with RATE_LIMIT_429, and 500 "error" after every other
\* failure of the ladder; every answer to a request other than OPTIONS is one
\* of these structured bodies.
C17_OutcomeToResponse ==
  \A i \in Invs :
    inv[i].pc = "done" =>
      LET resp == inv[i].response
          res  == inv[i].result
      IN /\ resp = Response(200, "success") <=> res.outcome = "returned"
         /\ resp = Response(429, "skipped") <=> inv[i].inCooldown
         /\ resp = Response(429, "error") <=>
              (res.outcome = "threw" /\ res.message = RATE_LIMIT_429)
         /\ (res.outcome = "threw" /\ res.message # RATE_LIMIT_429) =>
              resp = Response(500, "error")
         /\ resp # Response(200, "ok") => resp \in StructuredResponses

\* C17 witness: one invocation was answered 429 "error" after its ladder ended
\* with RATE_LIMIT_429 and the other was answered 429 "skipped".
C17_Witness ==
  \E i, j \in Invs :
    /\ inv[i].pc = "done" /\ inv[j].pc = "done"
    /\ inv[i].result.message = RATE_LIMIT_429
    /\ inv[i].response = Response(429, "error")
    /\ inv[j].inCooldown
    /\ inv[j].response = Response(429, "skipped")

\* C18: an invocation that is not OPTIONS and has the Supabase credentials
\* issues exactly one insert into api_health_checks before it answers, with
\* is_successful = true iff it answers 200; an invocation without credentials
\* or for OPTIONS issues none.
C18_OneHealthRow ==
  \A i \in Invs :
    /\ inv[i].pc # "done" => inv[i].health = <<>>
    /\ (inv[i].pc = "done" /\ inv[i].checked) =>
         /\ Len(inv[i].health) = 1
         /\ inv[i].health[1] <=> (inv[i].response.status = 200)
    /\ (inv[i].pc = "done" /\ ~inv[i].checked) => inv[i].health = <<>>

\* C18 witness: one invocation recorded is_successful = true and answered 200,
\* the other recorded false on the rate-limited path.
C18_Witness ==
  \E i, j \in Invs :
    /\ inv[i].pc = "done" /\ inv[i].health = <<TRUE>> /\ inv[i].response.status = 200
    /\ inv[j].pc = "done" /\ inv[j].health = <<FALSE>> /\ inv[j].setDone

(***************************************************************************)
(* src/qts-query.ts : the first Deno.serve handler                         *)
(***************************************************************************)
\* Every state callGenerativeApi can reach from `frontier`.
RECURSIVE QtsReach(_, _)
QtsReach(frontier, seen) ==
  IF frontier = {} THEN seen
  ELSE LET nxt == { callGenerativeApi(x, r) :
                      x \in { y \in frontier : y.outcome = "running" },
                      r \in QtsResponses }
           new == nxt \ seen
       IN QtsReach(new, seen \cup new)

\* What a handler sees of a finished client call: the destructured result, or
\* that it threw.
ClientResult(x) ==
  [ outcome   |-> x.outcome,
    aiData    |-> x.aiData,
    modelUsed |-> x.modelUsed,
    keyUsed   |-> x.keyUsed ]

NoClientResult ==
  [ outcome |-> "none", aiData |-> "none", modelUsed |-> "", keyUsed |-> "" ]

\* The ways `await callGenerativeApi(geminiApiKey, geminiBackupApiKey, {
\* maxRetries: 4, initialDelay: 1500 })` can end.  The call passes three
\* arguments to (prompt, apiKey, backupApiKey, config): the object lands in
\* backupApiKey, which is therefore truthy, and config keeps its defaults.
QtsResults ==
  { ClientResult(x) :
      x \in { y \in QtsReach({QtsStart(TRUE, defaultMaxRetries)},
                              {QtsStart(TRUE, defaultMaxRetries)}) :
                y.outcome # "running" } }

\* A handler between requests.  aiCalled: the client was called (it makes at
\* least one outbound call); storeOps: operations issued to the store.
IdleHandler ==
  [ pc           |-> "idle",
    method       |-> "none",
    haveSupabase |-> FALSE,
    haveGeminiKey |-> FALSE,
    haveBackupKey |-> FALSE,
    aiCalled     |-> FALSE,
    result       |-> NoClientResult,
    hasText      |-> FALSE,
    storeOps     |-> 0,
    insertFailed |-> FALSE,
    response     |-> NoResponse ]

\* catch (error): the structured 500 answer.
handlerCatch(h) == [h EXCEPT !.pc = "done", !.response = Response(500, "error")]

\* Mutant: the configuration is not checked before the client is called.
qtsHandlerStartNoCheck(method, haveSupabase, haveGeminiKey, haveBackupKey) ==
  LET h == [IdleHandler EXCEPT !.method = method, !.haveSupabase = haveSupabase,
                               !.haveGeminiKey = haveGeminiKey,
                               !.haveBackupKey = haveBackupKey]
  IN IF method = "OPTIONS"
       THEN [h EXCEPT !.pc = "done", !.response = Response(200, "ok")]
       ELSE [h EXCEPT !.pc = "call"]

\* Lines 157-175: OPTIONS, the configuration checks, up to the client call.
qtsHandlerStart(method, haveSupabase, haveGeminiKey, haveBackupKey) ==
  LET h == [IdleHandler EXCEPT !.method = method, !.haveSupabase = haveSupabase,
                               !.haveGeminiKey = haveGeminiKey,
                               !.haveBackupKey = haveBackupKey]
  IN IF method = "OPTIONS"
       THEN [h EXCEPT !.pc = "done", !.response = Response(200, "ok")]
     ELSE IF ~haveSupabase \/ ~haveGeminiKey
       THEN handlerCatch(h)
     ELSE [h EXCEPT !.pc = "call"]

\* Lines 177-184: the client call has ended with res; hasText says whether
\* aiData.candidates[0].content.parts[0].text is there.
qtsHandlerAfterCall(h, res, hasText) ==
  LET g == [h EXCEPT !.aiCalled = TRUE, !.result = res] IN
  IF res.outcome = "threw" THEN handlerCatch(g)
  ELSE IF res.aiData = "null" \/ ~hasText THEN handlerCatch(g)
  ELSE [g EXCEPT !.pc = "insert", !.hasText = TRUE]

\* Lines 185-219: the insert into gemini_responses has settled.
qtsHandlerAfterInsert(h, insertFails) ==
  LET g == [h EXCEPT !.storeOps = @ + 1, !.insertFailed = insertFails] IN
  IF insertFails THEN handlerCatch(g)
  ELSE [g EXCEPT !.pc = "done", !.response = Response(200, "success")]

(***************************************************************************)
(* src/unnamed/part_001 : the Deno.serve handler of the backup-key variant *)
(***************************************************************************)
RECURSIVE DualReach(_, _)
DualReach(frontier, seen) ==
  IF frontier = {} THEN seen
  ELSE LET nxt == { tryWithKey(x, r) :
                      x \in { y \in frontier : y.outcome = "running" },
                      r \in DualResponses }
           new == nxt \ seen
       IN DualReach(new, seen \cup new)

\* The ways `await callGenerativeApi(prompt, geminiApiKey, geminiBackupApiKey)`
\* can end.
DualResults(haveBackupKey) ==
  { ClientResult(x) :
      x \in { y \in DualReach({DualStart(haveBackupKey)}, {DualStart(haveBackupKey)}) :
                y.outcome # "running" } }

\* Lines 265-291: OPTIONS, the configuration checks, up to the client call.
dualHandlerStart(method, haveSupabase, haveGeminiKey, haveBackupKey) ==
  LET h == [IdleHandler EXCEPT !.method = method, !.haveSupabase = haveSupabase,
                               !.haveGeminiKey = haveGeminiKey,
                               !.haveBackupKey = haveBackupKey]
  IN IF method = "OPTIONS"
       THEN [h EXCEPT !.pc = "done", !.response = Response(200, "ok")]
     ELSE IF ~haveSupabase \/ ~haveGeminiKey
       THEN handlerCatch(h)
     ELSE [h EXCEPT !.pc = "call"]

\* Lines 293-299.
dualHandlerAfterCall(h, res, hasText) ==
  LET g == [h EXCEPT !.aiCalled = TRUE, !.result = res] IN
  IF res.outcome = "threw" THEN handlerCatch(g)
  ELSE IF res.aiData = "null" \/ ~hasText THEN handlerCatch(g)
  ELSE [g EXCEPT !.pc = "insert", !.hasText = TRUE]

\* Lines 301-341.
dualHandlerAfterInsert(h, insertFails) ==
  LET g == [h EXCEPT !.storeOps = @ + 1, !.insertFailed = insertFails] IN
  IF insertFails THEN handlerCatch(g)
  ELSE [g EXCEPT !.pc = "done", !.response = Response(200, "success")]

(***************************************************************************)
(* SpecHandlers: one request to each of the three handlers, the first      *)
(* handler of src/qts-query.ts, the backup-key handler of part_001 and the *)
(* cooldown-gated handler of part_000 (invocation "a", its ladder run as   *)
(* one action), with every configuration and every outcome of their calls. *)
(***************************************************************************)
InitHandlers ==
  /\ hq = IdleHandler
  /\ hd = IdleHandler
  /\ now = 0
  /\ cooldownTable = {}
  /\ inv = [i \in Invs |-> IdleInv]
  /\ gateHist = GateHistStart
  /\ LadderIdle
  /\ QtsIdle
  /\ DualIdle
  /\ RetryIdle

exceptHandlers == <<ladderVars, gateVars, qtsVars, dualVars, retryVars>>

QtsHandlerRequest ==
  /\ hq.pc = "idle"
  /\ \E method \in {"GET", "OPTIONS"}, haveSupabase, haveGeminiKey, haveBackupKey \in BOOLEAN :
       hq' = qtsHandlerStart(method, haveSupabase, haveGeminiKey, haveBackupKey)
  /\ UNCHANGED <<hd, exceptHandlers>>

QtsHandlerCall ==
  /\ hq.pc = "call"
  /\ \E res \in QtsResults, hasText \in BOOLEAN :
       hq' = qtsHandlerAfterCall(hq, res, hasText)
  /\ UNCHANGED <<hd, exceptHandlers>>

QtsHandlerInsert ==
  /\ hq.pc = "insert"
  /\ \E insertFails \in BOOLEAN : hq' = qtsHandlerAfterInsert(hq, insertFails)
  /\ UNCHANGED <<hd, exceptHandlers>>

DualHandlerRequest ==
  /\ hd.pc = "idle"
  /\ \E method \in {"GET", "OPTIONS"}, haveSupabase, haveGeminiKey, haveBackupKey \in BOOLEAN :
       hd' = dualHandlerStart(method, haveSupabase, haveGeminiKey, haveBackupKey)
  /\ UNCHANGED <<hq, exceptHandlers>>

DualHandlerCall ==
  /\ hd.pc = "call"
  /\ \E res \in DualResults(hd.haveBackupKey), hasText \in BOOLEAN :
       hd' = dualHandlerAfterCall(hd, res, hasText)
  /\ UNCHANGED <<hq, exceptHandlers>>

DualHandlerInsert ==
  /\ hd.pc = "insert"
  /\ \E insertFails \in BOOLEAN : hd' = dualHandlerAfterInsert(hd, insertFails)
  /\ UNCHANGED <<hq, exceptHandlers>>

NextHandlers ==
  \/ QtsHandlerRequest
  \/ QtsHandlerCall
  \/ QtsHandlerInsert
  \/ DualHandlerRequest
  \/ DualHandlerCall
  \/ DualHandlerInsert
  \/ ServeRequest
  \/ CheckCooldown("a")
  \/ RunLadder("a")
  \/ InsertCooldown("a")
  \/ BackgroundDeletion

SpecHandlers == InitHandlers /\ [][NextHandlers]_vars

\* The AI call of handler h succeeded with a usable text and the insert into
\* gemini_responses failed.
AiOkInsertFailed(h) ==
  /\ h.pc = "done"
  /\ h.result.outcome = "returned"
  /\ h.hasText
  /\ h.insertFailed

\* C19, as claimed: when the AI call succeeded and the insert into
\* gemini_responses fails, the answer is not the 500 error response, in the
\* first handler of src/qts-query.ts and in the handler of part_001.
C19_InsertFailureNotReported ==
  /\ AiOkInsertFailed(hq) => hq.response # Response(500, "error")
  /\ AiOkInsertFailed(hd) => hd.response # Response(500, "error")

\* The configuration a handler needs is incomplete.
ConfigMissing(h) ==
  h.pc = "done" /\ h.method = "GET" /\ (~h.haveSupabase \/ ~h.haveGeminiKey)

\* C20: with SUPABASE_URL / SUPABASE_SERVICE_ROLE_KEY missing in the
\* cooldown-gated handler, or those or GEMINI_API_KEY missing in the first
\* handler of src/qts-query.ts, the invocation answers 500 without having made
\* any Gemini call or any store operation.
C20_MissingConfigIsFatal ==
  /\ inv["a"].credentials = "missing" =>
       /\ inv["a"].pc = "done"
       /\ inv["a"].response = Response(500, "error")
       /\ ~inv["a"].checked
       /\ inv["a"].nLadder = 0
       /\ inv["a"].nSetCooldown = 0
       /\ inv["a"].health = <<>>
       /\ cooldownTable = {}
  /\ ConfigMissing(hq) =>
       /\ hq.response = Response(500, "error")
       /\ ~hq.aiCalled
       /\ hq.storeOps = 0

\* C20 witness: the cooldown-gated handler answered 500 for missing Supabase
\* credentials, and the first handler of src/qts-query.ts answered 500 for a
\* missing GEMINI_API_KEY with the Supabase credentials present.
C20_Witness ==
  /\ inv["a"].credentials = "missing"
  /\ inv["a"].response = Response(500, "error")
  /\ ConfigMissing(hq)
  /\ hq.haveSupabase /\ ~hq.haveGeminiKey
  /\ hq.response = Response(500, "error")

\* C22: a cooldown row is inserted only by an invocation whose ladder got an
\* HTTP 429 from an outbound call; an invocation that succeeds, that is
\* skipped because of an active cooldown, or that fails without a 429 never
\* calls setCooldown, so a skipped invocation does not extend the cooldown.
C22_CooldownOnlyAfter429 ==
  /\ [][cooldownTable' # cooldownTable =>
          /\ inv["a"].pc = "setCooldown"
          /\ ladHist.saw429
          /\ inv["a"].result.message = RATE_LIMIT_429
          /\ ~inv["a"].inCooldown]_vars
  /\ [](inv["a"].nSetCooldown > 0 => ladHist.saw429)
  /\ [](inv["a"].inCooldown => (inv["a"].nSetCooldown = 0 /\ ladHist.nCalls = 0))
  /\ []((inv["a"].pc = "done" /\ inv["a"].response.status \in {200, 500}) =>
          (inv["a"].nSetCooldown = 0 /\ ~ladHist.saw429))

\* C22 witness: the invocation ran the ladder although a row was stored (its
\* read failed), got a 429 after several calls, and its row was inserted
\* beside the earlier one.
C22_Witness ==
  /\ inv["a"].pc = "done"
  /\ inv["a"].response = Response(429, "error")
  /\ ladHist.saw429
  /\ ladHist.nCalls > 1
  /\ Cardinality(cooldownTable) = 2

(***************************************************************************)
(* SpecGateWarm: the handler started on a table that earlier invocations   *)
(* have left.  Two of them got a 429, at times t1 and t2, each at time 0   *)
(* or one clock step later; the row of the first was stored first and the  *)
(* insert of the second was stored or failed.  The clock stands at the     *)
(* later of the two times.  Those invocations are taken as MaxStarts - 1   *)
(* of the requests, so that one more request is served.                    *)
(***************************************************************************)
WarmTimes == {0, TickMs}

InitGateWarm ==
  /\ now = TickMs
  /\ \E t1 \in WarmTimes, t2 \in WarmTimes, insertFails \in BOOLEAN :
       /\ cooldownTable =
            setCooldown(setCooldown({}, CooldownRow(t1), FALSE), CooldownRow(t2), insertFails)
       /\ gateHist = [GateHistStart EXCEPT !.started = MaxStarts - 1, !.t429 = {t1, t2}]
  /\ inv = [i \in Invs |-> IdleInv]
  /\ LadderIdle
  /\ QtsIdle
  /\ DualIdle
  /\ RetryIdle
  /\ HandlersIdle

SpecGateWarm == InitGateWarm /\ [][NextGate]_vars

\* Every stored cooldown row has its cooldown_until at or before the clock.
AllExpired == \A r \in cooldownTable : DateParse(r.cooldown_until) <= now

\* C23: once the clock has reached the cooldown_until of every stored row, each
\* invocation that makes its cooldown check gets false and goes on to run the
\* ladder, the rows still being there: nothing resets or deletes them.
C23_ClearByTimeAlone ==
  [][\A i \in Invs :
       (inv[i].pc = "check" /\ inv'[i].pc # "check" /\ cooldownTable # {} /\ AllExpired) =>
         /\ ~inv'[i].inCooldown
         /\ inv'[i].pc = "ladder"
         /\ cooldownTable' = cooldownTable]_vars

\* C23 witness: two rows are stored, the check was made at the very instant
\* the later cooldown_until was reached, its read succeeded, and the ladder
\* has been run.
C23_Witness ==
  \E i \in Invs :
    /\ Cardinality(cooldownTable) >= 2
    /\ inv[i].checked /\ ~inv[i].readFailed
    /\ inv[i].checkedAt = inv[i].sawUntil
    /\ inv[i].nLadder = 1

\* Row r was stored when invocation i made its cooldown read (rows are
\* numbered in the order they are stored).
InSnapshot(i, r) == r.id <= inv[i].sawRows

\* C24, as claimed: every run of the ladder made while an unexpired cooldown
\* row is stored is made by an invocation whose cooldown read was over before
\* that row was inserted; and an invocation whose read succeeds after the
\* insert and before the expiry makes no outbound call.
C24_OverCallOnlyByEarlierReaders ==
  /\ [][\A i \in Invs : IssuesCalls(i) =>
          \A r \in cooldownTable :
            now < DateParse(r.cooldown_until) => ~InSnapshot(i, r)]_vars
  /\ [](\A i \in Invs : CheckedWhileCooling(i) => inv[i].nLadder = 0)

\* C24, amended: ... was over before that row was inserted, or whose cooldown
\* read failed (isInCooldown then answers false whatever is stored).
C24_OverCallOnlyByEarlierOrFailedReaders ==
  /\ [][\A i \in Invs : IssuesCalls(i) =>
          \A r \in cooldownTable :
            now < DateParse(r.cooldown_until) => (~InSnapshot(i, r) \/ inv[i].readFailed)]_vars
  /\ [](\A i \in Invs : CheckedWhileCooling(i) => inv[i].nLadder = 0)

\* C24 witness: an invocation whose read succeeded on an empty table ran the
\* ladder while an unexpired row, inserted by the other invocation after that
\* read, was stored.
C24_Witness ==
  \E i \in Invs :
    /\ inv[i].raced
    /\ inv[i].sawRows = 0

\* C21: the cooldown table is append-only: no step of any invocation, the
\* background deletion included, removes or changes a stored cooldown row.
C21_CooldownAppendOnly == [][cooldownTable \subseteq cooldownTable']_vars

\* C21 witness: a background deletion has reached the store, which held the
\* rows of two earlier invocations, and the row of a third has been added.
C21_Witness ==
  /\ gateHist.deletion = "landed"
  /\ Cardinality(cooldownTable) = 3

\* A stored cooldown row has its cooldown_until ahead of time t.
SomeRowActive(table, t) == \E r \in table : t < DateParse(r.cooldown_until)

PhaseCalls(ph) ==
  ladHist.calls[ph, <<"primary", primaryModel>>] + ladHist.calls[ph, <<"primary", fallbackModel>>]
    + ladHist.calls[ph, <<"backup", primaryModel>>] + ladHist.calls[ph, <<"backup", fallbackModel>>]

BackupCalls(ph) ==
  ladHist.calls[ph, <<"backup", primaryModel>>] + ladHist.calls[ph, <<"backup", fallbackModel>>]

\* The first call of a phase is made with the primary key and the primary
\* model.
PhaseStartsAtFirstPair ==
  /\ \A ph \in Phases :
       PhaseCalls(ph) >= 1 => ladHist.calls[ph, <<"primary", primaryModel>>] >= 1
  /\ (lad.outcome = "running" /\ PhaseCalls(lad.phase) = 0) =>
       (lad.ki = 1 /\ lad.mi = 1 /\ lad.attempt = 1)

RetriedOrEscalated(l, t) ==
  IF l.attempt < maxRetries
    THEN /\ t.outcome = "running"
         /\ <<t.phase, t.ki, t.mi>> = <<l.phase, l.ki, l.mi>>
         /\ t.attempt = l.attempt + 1
         /\ t.slept = sleep(l.delay)
         /\ t.delay = l.delay * backoffFactor
    ELSE /\ t.slept = NoSleep
         /\ t.attempt \in {1, maxRetries}
         /\ t.outcome = "running" =>
              (t.attempt = 1 /\ t.delay = initialDelay
               /\ <<t.phase, t.ki, t.mi>> # <<l.phase, l.ki, l.mi>>)
         /\ t.outcome = "returned" => (l.phase = "general" /\ t.aggregation = "prioritized")
         /\ t.outcome = "threw" => (l.phase = "fallback" /\ t.thrown # RATE_LIMIT_429)

\* C27: an outbound call that takes longer than timeoutMs is aborted and is
\* one failed attempt of its pair, whatever the upstream would have answered:
\* it is followed by the backoff sleep and the next attempt, or by the
\* escalation to the next pair or phase; it does not make the ladder throw
\* RATE_LIMIT_429, and setCooldown is called only after an HTTP 429 was
\* received.
C27_TimeoutIsRetryable ==
  /\ [][ladHist'.nCalls > ladHist.nCalls /\ ladHist'.timedOut =>
          /\ RetriedOrEscalated(lad, lad')
          /\ lad'.thrown # RATE_LIMIT_429
          /\ ladHist'.saw429 = ladHist.saw429]_vars
  /\ [](lad.thrown = RATE_LIMIT_429 => (ladHist.saw429 /\ ~ladHist.timedOut))
  /\ [](~ladHist.saw429 => (inv["a"].nSetCooldown = 0 /\ inv["a"].pc # "setCooldown"))

\* C27 witness: every call of the ladder of the invocation timed out, all 24
\* of them with no 429, and the handler answered 500 with no cooldown row
\* written.
C27_Witness ==
  /\ ladHist.nCalls = 2 * Len(lad.keys) * Len(models) * maxRetries
  /\ ladHist.timedOut
  /\ lad.lastError = <<"The signal has been aborted">>
  /\ ~ladHist.saw429
  /\ inv["a"].pc = "done"
  /\ inv["a"].response = Response(500, "error")
  /\ cooldownTable = {}

\* C28, as claimed: a 2xx response whose body cannot be parsed, or whose body
\* carries no text, is terminal: no further fetch is made after it by
\* callGenerativeApi as the first handler of src/qts-query.ts runs it.
C28_MalformedResponseIsTerminal == ~qHist.afterMalformed

\* The step is a fetch with key k that goes on to another fetch with k.
SameKeyGoesOn(k) ==
  q.outcome = "running" /\ q.keyLabel = k /\ q'.outcome = "running" /\ q'.keyLabel = k

\* The fetch of the step got 429, the first one for key k.
First429Now(k) == qHist'.first429[k] # qHist.first429[k]

\* C29: with one key the model changes only from primaryModel to
\* fallbackModel and only when the fetch just made got the first 429 of that
\* key; after it every fetch with the key uses fallbackModel; any other
\* failure (5xx, network error, unparsable body) leaves the model as it is;
\* the backup key starts with primaryModel at attempt 0; and a key gets at
\* most maxRetries fetches.
C29_ModelSwitchOn429Sticky ==
  /\ [][\A k \in QtsLabels :
          /\ SameKeyGoesOn(k) =>
               /\ q'.attempt = q.attempt + 1
               /\ q'.currentModel # q.currentModel =>
                    /\ First429Now(k)
                    /\ q.currentModel = qtsPrimaryModel
                    /\ q'.currentModel = qtsFallbackModel
               /\ First429Now(k) => q'.currentModel = qtsFallbackModel
               /\ qHist.first429[k] > 0 =>
                    (q.currentModel = qtsFallbackModel /\ q'.currentModel = qtsFallbackModel)
          /\ (q.keyLabel # k /\ q'.keyLabel = k) =>
               (k = "backup" /\ q'.currentModel = qtsPrimaryModel /\ q'.attempt = 0)]_vars
  /\ [](\A k \in QtsLabels : QtsCalls(qHist, k) <= q.maxRetries)

\* C29 witness: the primary key got a 429 and later a 5xx, stayed on
\* fallbackModel to its last attempt, and the backup key has made a fetch
\* with primaryModel.
C29_Witness ==
  /\ qHist.first429["primary"] = 1
  /\ qHist.calls["primary", qtsPrimaryModel] = 1
  /\ qHist.calls["primary", qtsFallbackModel] = q.maxRetries - 1
  /\ qHist.ended["primary"] = "failure"
  /\ q.primaryError =
       <<"Failed to call API with", "primary", q.maxRetries, <<"API server error", 500>>>>
  /\ qHist.calls["backup", qtsPrimaryModel] >= 1

\* C30, as claimed: the call the first handler makes runs with the
\* configuration of its call site (maxRetries 4, initialDelay 1500), with
\* GEMINI_API_KEY as the primary and GEMINI_API_BACKUP_KEY as the backup
\* credential: a key gets at most 4 fetches, the wait before the second attempt of a key is at least 1500 ms,
\* and a fetch with the backup key is made only when GEMINI_API_BACKUP_KEY
\* is set.
C30_CallSiteConfigApplies ==
  /\ \A k \in QtsLabels : QtsCalls(qHist, k) <= HandlerConfig.props["maxRetries"]
  /\ (q.outcome = "running" /\ q.attempt = 1) =>
       qHist.firstWait >= HandlerConfig.props["initialDelay"]
  /\ QtsCalls(qHist, "backup") > 0 => Truthy(qHist.args[2])

\* The fetch got an HTTP status that is neither 2xx nor one of 429, 500, 503.
NotRetryableStatus(r) ==
  r.kind = "http" /\ ~ResponseOk(r) /\ r.status \notin {429, 500, 503}

\* C31, as claimed: in callGenerativeApiWithRetry a response whose status is
\* not retryable ends the function with an error at once, at any attempt
\* index: it is the last fetch, and no sleep follows it.
C31_NonRetryableStatusEndsCall ==
  \A i \in 1 .. Len(wHist) :
    NotRetryableStatus(wHist[i].r) =>
      /\ i = Len(wHist)
      /\ w.outcome = "threw"
      /\ wHist[i].slept = 0

\* C32: the throw after the retry loop of callGenerativeApiWithRetry is never
\* reached: the attempt index never passes maxRetries, and the function
\* ends by a return or by a throw from inside the loop.
C32_AfterLoopThrowUnreachable ==
  /\ w.attempt <= RETRY_CONFIG.maxRetries
  /\ w.outcome \in {"running", "returned", "threw"}
  /\ w.outcome = "threw" => w.thrown # AfterLoopError
  /\ Len(wHist) = RETRY_CONFIG.maxRetries + 1 => w.outcome # "running"

\* C32 witness: every attempt failed, the last at attempt index maxRetries
\* with a retryable status, and the function threw from inside the loop.
C32_Witness ==
  /\ Len(wHist) = RETRY_CONFIG.maxRetries + 1
  /\ wHist[Len(wHist)].r = Http(503, "json")
  /\ w.attempt = RETRY_CONFIG.maxRetries
  /\ w.outcome = "threw"

\* C33: callGenerativeApiWithRetry makes at most maxRetries + 1 fetches, the
\* first with gemini-2.5-flash and every later one with
\* gemini-2.5-flash-lite whatever failed before, and the modelUsed it
\* returns is the model of the fetch that returned 2xx, its last.
C33_FirstFlashThenLite ==
  /\ Len(wHist) <= RETRY_CONFIG.maxRetries + 1
  /\ \A i \in 1 .. Len(wHist) :
       wHist[i].model = IF i = 1 THEN retryPrimaryModel ELSE retryLiteModel
  /\ w.outcome = "returned" =>
       /\ ResponseOk(wHist[Len(wHist)].r)
       /\ w.modelUsed = wHist[Len(wHist)].model

\* C33 witness: a network error, then a 500, then a 2xx on the third fetch,
\* returned with the lighter model.
C33_Witness ==
  /\ Len(wHist) = 3
  /\ wHist[1].r = NetErr
  /\ wHist[2].r = Http(500, "json")
  /\ w.outcome = "returned"
  /\ w.modelUsed = retryLiteModel

\* The primary key of part_001's callGenerativeApi has failed.
PrimaryFailed == dHist.primaryFinal # NoFetch

FailoverResult(r) ==
  /\ r.kind = "http"
  /\ ~ResponseOk(r)
  /\ r.body # "noerror"
  /\ (r.status \in {429, 503} \/ r.body = "overloaded")

Got429(e) == e.r.kind = "http" /\ e.r.status = 429

\* The fetches made with key k, in order.
KeyLog(k) == SelectSeq(srHist.log, LAMBDA e : e.key = k)

\* C35: in the single-retry variants (handler of part_002, single-key
\* callGenerativeApi and tryWithKey of part_001) a key gets at most two
\* fetches; the first uses gemini-2.5-flash; a second is made only when the
\* first returned 429 and uses gemini-2.5-flash-lite; after a first result
\* other than 429, or after the second fetch, no more is done with the key;
\* and the model named on success (modelUsed, model_used of the stored row)
\* is the model of the last fetch.
C35_AtMostOneRetryPerKey ==
  /\ \A k \in {"primary", "backup"} :
       LET log == KeyLog(k) IN
       /\ Len(log) <= 2
       /\ Len(log) >= 1 => log[1].model = singlePrimaryModel
       /\ Len(log) = 2 => (Got429(log[1]) /\ log[2].model = singleLiteModel)
       /\ (Len(log) = 2 \/ (Len(log) = 1 /\ ~Got429(log[1]))) =>
            ~(sr.outcome = "running" /\ SingleKeyLabel = k)
  /\ sr.outcome = "returned" =>
       /\ ResponseOk(srHist.log[Len(srHist.log)].r)
       /\ sr.modelUsed = srHist.log[Len(srHist.log)].model
       /\ srHist.variant = "part_002" => sr.stored \in {"", sr.modelUsed}

\* C35 witness: the dual-key client of part_001 made two fetches with each
\* key, the second with the primary key ending on another 429, and returned
\* the result of the second fetch with the backup key.
C35_Witness ==
  /\ srHist.variant = "dualKey"
  /\ Len(KeyLog("primary")) = 2
  /\ Got429(KeyLog("primary")[2])
  /\ Len(KeyLog("backup")) = 2
  /\ sr.outcome = "returned"
  /\ sr.modelUsed = dualLiteModel

\* The error thrown after the fallback search, carrying the message msg.
AllStrategiesFailed(msg) == <<"All search strategies failed. Last error:", msg>>

\* C36: when callGenerativeApiWithPrioritySearch throws without having seen a
\* 429, every pair was given up in phase 1 and in the fallback search, the
\* error carries the message of the most recent failed outbound call of the
\* run, and neither the error nor that message is RATE_LIMIT_429.
C36_LastErrorIsMostRecentFailure ==
  (lad.outcome = "threw" /\ ~ladHist.saw429) =>
    /\ lad.phase = "fallback"
    /\ \A k \in 1 .. Len(lad.keys), m \in 1 .. Len(models) :
         /\ ladHist.calls["quadrate", <<lad.keys[k], models[m]>>] >= 1
         /\ ladHist.calls["fallback", <<lad.keys[k], models[m]>>] = maxRetries
    /\ lad.thrown = AllStrategiesFailed(lad.lastError)
    /\ ~ladHist.lastErrorStale
    /\ lad.thrown # RATE_LIMIT_429
    /\ lad.lastError \notin {RATE_LIMIT_429, NoError}

\* C36 witness: phase 1 ended on HTTP 500 responses, the fallback search on a
\* timeout, and the error thrown carries the message of the timeout.
C36_Witness ==
  /\ lad.outcome = "threw"
  /\ ladHist.quadPrimary500
  /\ lad.thrown = AllStrategiesFailed(<<"The signal has been aborted">>)

\* The quadrate search returned data from some pair.
Phase1Succeeded == ladHist.quadrateOk # <<>>

\* In a returned result each completed flag says whether the data is there.
FlagsMatchData ==
  lad.outcome = "returned" =>
    /\ lad.quadrateSearchCompleted <=> lad.quadrateData
    /\ lad.generalSearchCompleted <=> lad.generalData

\* After a successful phase 1 the call returns the aggregate unless phase 2
\* saw a 429, in which case it throws RATE_LIMIT_429.
Phase1SuccessKept ==
  (Phase1Succeeded /\ lad.outcome # "running") =>
    IF ladHist.saw429
      THEN lad.outcome = "threw" /\ lad.thrown = RATE_LIMIT_429
      ELSE lad.outcome = "returned" /\ lad.aggregation = "prioritized" /\ lad.quadrateData

\* The fallback search runs only after phase 1 gave up every pair without
\* data, and never after phase 2.
FallbackOnlyAfterPhase1GivenUp ==
  lad.phase = "fallback" =>
    /\ ~Phase1Succeeded
    /\ PhaseCalls("general") = 0
    /\ \A k \in 1 .. Len(lad.keys), m \in 1 .. Len(models) :
         ladHist.calls["quadrate", <<lad.keys[k], models[m]>>] >= 1

\* C37, as claimed: after a successful phase 1 the call returns a success
\* unless phase 2 sees a 429; in every returned result
\* quadrateSearchCompleted is true iff quadrateData is non-null and
\* generalSearchCompleted is true iff generalData is non-null; and the
\* fallback search runs only when phase 1 gave up every pair.
C37_AggregateFlagsMatchData ==
  /\ Phase1SuccessKept
  /\ FlagsMatchData
  /\ FallbackOnlyAfterPhase1GivenUp

\* The step is the insert of setCooldown of invocation i failing.
InsertFailsNow(i) ==
  inv[i].pc = "setCooldown" /\ inv'[i].pc = "done" /\ inv'[i].insertFailed

\* The step is the cooldown check of invocation i.
ChecksNow(i) == inv[i].pc = "check" /\ inv'[i].pc # "check"

\* Some stored row is unexpired at time t.
Gated(table, t) == \E r \in table : t < DateParse(r.cooldown_until)

\* C38: when the insert of setCooldown fails the handler still answers 429
\* (the rate-limit response with cooldownSet: true) and the table is left as
\* it was, without a row for that 429; an invocation is sent to the skipped
\* path only by a stored unexpired row, so a check made while no such row is
\* stored goes on to the ladder however recent the 429 was.
C38_FailedCooldownInsertSwallowed ==
  [][\A i \in Invs :
       /\ InsertFailsNow(i) =>
            /\ inv'[i].response = Response(429, "error")
            /\ inv'[i].setDone
            /\ cooldownTable' = cooldownTable
       /\ ChecksNow(i) =>
            /\ inv'[i].inCooldown => Gated(cooldownTable, now)
            /\ ~Gated(cooldownTable, now) => inv'[i].pc = "ladder"]_vars

\* C38 witness: invocation a answered 429 after a failed insert, the table
\* holds no row, and invocation b, whose read succeeded at the time of that
\* 429, is on its way to the ladder.
C38_Witness ==
  /\ inv["a"].pc = "done"
  /\ inv["a"].insertFailed
  /\ inv["a"].response = Response(429, "error")
  /\ cooldownTable = {}
  /\ gateHist.t429 = {now}
  /\ inv["b"].pc = "ladder"
  /\ inv["b"].checked
  /\ ~inv["b"].readFailed
  /\ inv["b"].checkedAt = now

\* The step issues the random deletion.
DeletionIssuedNow == gateHist.deletion # "inFlight" /\ gateHist'.deletion = "inFlight"

\* The step is the deletion reaching the store.
DeletionLandsNow == gateHist.deletion = "inFlight" /\ gateHist'.deletion = "landed"

\* C39: the random deletion of api_health_checks is issued only on the way
\* to the ladder, never on the skipped path; when it reaches the store, with
\* whatever outcome, the handler's position, its inserts and its response
\* stay as they are; it can reach the store before or after the handler's
\* own health-check insert, and in the second case the row the invocation
\* recorded is deleted.
C39_DeletionUnorderedWithHandler ==
  /\ [][/\ DeletionIssuedNow =>
            (inv["a"].pc = "check" /\ inv'["a"].pc = "ladder" /\ ~inv'["a"].inCooldown)
        /\ DeletionLandsNow =>
            /\ inv'["a"].pc = inv["a"].pc
            /\ inv'["a"].health = inv["a"].health
            /\ inv'["a"].response = inv["a"].response
            /\ inv'["a"].sawDeletion => StoredHealth(inv'["a"]) = <<>>]_vars
  /\ [](inv["a"].response = Response(429, "skipped") =>
         (gateHist.deletion = "none" /\ ~inv["a"].sawDeletion))
  /\ [](inv["a"].healthGone <= Len(inv["a"].health))

\* C39 witness: the handler answered 200 and recorded its health check, and
\* the deletion that reached the store afterwards removed that row.
C39_Witness ==
  /\ inv["a"].pc = "done"
  /\ inv["a"].response = Response(200, "success")
  /\ inv["a"].health = <<TRUE>>
  /\ inv["a"].sawDeletion
  /\ StoredHealth(inv["a"]) = <<>>

\* The other order: the deletion emptied the table first, and the row the
\* handler recorded afterwards is stored.
C39_RowSurvives ==
  /\ inv["a"].pc = "done"
  /\ inv["a"].response = Response(200, "success")
  /\ inv["a"].sawDeletion
  /\ StoredHealth(inv["a"]) = <<TRUE>>

\* A fetch has been made by the call of the first handler.
QtsFetched == qHist.lastCall # <<>>

\* The prompt of the gemini_responses row, where the handler inserts one.
StoredPrompts ==
  {geminiResponsesRow(q, qHist.prompt)[i].prompt :
     i \in 1 .. Len(geminiResponsesRow(q, qHist.prompt))}

\* C40, as claimed: in the first handler of src/qts-query.ts the text sent
\* in every outbound call is the prompt selected from PROMPTS and equals the
\* prompt stored in the gemini_responses row; an API key is never sent as
\* request text, and the key placed in the request URL is always
\* GEMINI_API_KEY or GEMINI_API_BACKUP_KEY.
C40_PromptSentKeysInUrl ==
  QtsFetched =>
    /\ qHist.sentText = JsString(qHist.prompt)
    /\ \A p \in StoredPrompts : qHist.sentText = JsString(p)
    /\ JsToString(qHist.sentText) \notin GeminiSecrets
    /\ qHist.sentKey \in GeminiSecrets

\* C40, the parts on their own: the text sent is the selected prompt; no
\* secret is sent as text; the URL key is one of the two secrets.
C40_TextIsSelectedPrompt == QtsFetched => qHist.sentText = JsString(qHist.prompt)
C40_NoSecretAsText == QtsFetched => JsToString(qHist.sentText) \notin GeminiSecrets
C40_UrlKeyIsASecret == QtsFetched => qHist.sentKey \in GeminiSecrets

\* What the call site does instead: the text of every fetch is the value of
\* GEMINI_API_KEY, the URL key of a fetch labelled primary is the value of
\* GEMINI_API_BACKUP_KEY (the text "undefined" when it is not set), the URL
\* key of a fetch labelled backup is the configuration object as text, and
\* the row stored has the selected prompt.
C40_CallSiteShiftsArguments ==
  /\ QtsFetched =>
       /\ qHist.sentText = JsString("GEMINI_API_KEY")
       /\ qHist.sentKey =
            IF qHist.lastCall[1] = "primary"
              THEN JsToString(qHist.args[2])
              ELSE "[object Object]"
  /\ StoredPrompts \subseteq {qHist.prompt}

\* A row is stored after a fetch labelled backup.
C40_Witness ==
  /\ QtsFetched
  /\ qHist.lastCall[1] = "backup"
  /\ StoredPrompts # {}


====
